---- MODULE Spec2Model ----
(***************************************************************************)
(* Model of the ONSTAQ automation engine's rule program executor           *)
(* (src/src/engine/executor.ts): the concurrency gate (activeExecutions,   *)
(* executionQueue), the life of one run (runExecution) against the Store,  *)
(* and the recursive walk of a rule's component tree.                      *)
(*                                                                         *)
(* Upstream and evaluation outcomes (does an action succeed, does a        *)
(* condition pass, how many items does a branch find) are drawn from a     *)
(* finite "tape" of decisions consumed in execution order.                 *)
(***************************************************************************)
EXTENDS Integers, Sequences, FiniteSets, Bags, TLC

(***************************************************************************)
(* Bounds of the model                                                     *)
(***************************************************************************)
MaxTriggers == 3        \* trigger arrivals (external and chained) in a behaviour
MaxCap == 2             \* largest configured maxConcurrentExecutions
TapeLen == 4            \* longest tape of upstream decisions for one walk

DefaultMaxConcurrent == 10

Ids == 1..MaxTriggers
TapeVals == 0..3

NoError == "none"       \* JS null / undefined error field
eStore == "eStore"      \* message of an exception thrown by a Store write
eUpstream == "eUpstream"
eNotIterable == "components is not iterable"
eTypeError == "TypeError: cannot read properties of null"
eUnknownType == "Unknown component type"
eNoQuery == "lookup_items branch requires oqlQuery"
eNoSource == "No source item for related_items branch"

(***************************************************************************)
(* Rule components (RuleComponent).  Every component carries every field   *)
(* so that the records are comparable; the fields a type does not use are  *)
(* left at their blank value.                                              *)
(***************************************************************************)
Blank ==
  [id |-> 0, componentType |-> "action", actionType |-> "log",
   continueOnError |-> "absent", target |-> 0,
   btype |-> "none", hasQuery |-> FALSE,
   components |-> <<>>, then |-> <<>>, else |-> <<>>]

Action(id, coe) ==
  [Blank EXCEPT !.id = id, !.continueOnError = coe]

TypedAction(id, type, coe) ==
  [Blank EXCEPT !.id = id, !.actionType = type, !.continueOnError = coe]

ChainAction(id, target) ==
  [Blank EXCEPT !.id = id, !.actionType = "automation.trigger", !.target = target]

Condition(id) ==
  [Blank EXCEPT !.id = id, !.componentType = "condition"]

Branch(id, btype, hasQuery, comps) ==
  [Blank EXCEPT !.id = id, !.componentType = "branch", !.btype = btype,
                !.hasQuery = hasQuery, !.components = comps]

IfElse(id, thenC, elseC) ==
  [Blank EXCEPT !.id = id, !.componentType = "if_else", !.then = thenC, !.else = elseC]

\* a component of a type the executor does not know (stored data is free JSON)
Unknown(id) ==
  [Blank EXCEPT !.id = id, !.componentType = "unknown"]

\* a null entry in the stored components array
NullComp ==
  [Blank EXCEPT !.id = 99, !.componentType = "null"]

(***************************************************************************)
(* ComponentResult                                                         *)
(***************************************************************************)
Result(comp, status, error, hasChildren, children) ==
  [componentId |-> comp.id, componentType |-> comp.componentType,
   status |-> status, error |-> error, itemCount |-> 0,
   hasChildren |-> hasChildren, children |-> children]

(***************************************************************************)
(* hasFailure / findFirstError                                             *)
(***************************************************************************)
\* hasFailure testing for a status literal no ComponentResult carries
RECURSIVE hasFailure_wrongLiteral(_)
hasFailure_wrongLiteral(results) ==
  \E i \in 1..Len(results) :
     \/ results[i].status = "error"
     \/ results[i].hasChildren /\ hasFailure_wrongLiteral(results[i].children)

RECURSIVE hasFailure(_)
hasFailure(results) ==
  \E i \in 1..Len(results) :
     \/ results[i].status = "failed"
     \/ results[i].hasChildren /\ hasFailure(results[i].children)

\* findFirstError that does not descend into children
RECURSIVE findFirstError_shallow(_)
findFirstError_shallow(results) ==
  IF results = <<>> THEN NoError
  ELSE IF Head(results).status = "failed" /\ Head(results).error # NoError
       THEN Head(results).error
       ELSE findFirstError_shallow(Tail(results))

RECURSIVE findFirstError(_)
findFirstError(results) ==
  IF results = <<>> THEN NoError
  ELSE LET r == Head(results)
           childError == IF r.hasChildren THEN findFirstError(r.children) ELSE NoError
       IN IF r.status = "failed" /\ r.error # NoError THEN r.error
          ELSE IF childError # NoError THEN childError
          ELSE findFirstError(Tail(results))

(***************************************************************************)
(* The walk.  st is the mutable part of a walk: the tape and the position  *)
(* on it, ctx.componentResults of the context in use (flat), the run's     *)
(* createdItems, and the log of the components dispatched.  ctx is the     *)
(* part of the ExecutionContext a sequence is executed under.              *)
(***************************************************************************)
Peek(st) == IF st.pos <= Len(st.tape) THEN st.tape[st.pos] ELSE 0
Adv(st) == [st EXCEPT !.pos = @ + 1]

Returned(result, st) == [threw |-> FALSE, err |-> NoError, result |-> result, st |-> st]
Thrown(comp, err, st) ==
  [threw |-> TRUE, err |-> err, result |-> Result(comp, "failed", err, FALSE, <<>>), st |-> st]

\* the message of the error an action fails with (one text per action)
ErrTexts == << "e1", "e2", "e3", "e4", "e5" >>

\* ActionRunner.executeOne: success, or failed with the message of the error
executeOne(action, ctx, st) ==
  IF action.actionType = "automation.trigger"
  THEN [status |-> IF ctx.chained = "ok" THEN "success" ELSE "failed",
        error |-> IF ctx.chained = "ok" THEN NoError ELSE ErrTexts[action.id],
        st |-> st]
  ELSE LET v == Peek(st)
           ok == v = 0
           st1 == Adv(st)
           created == ok /\ action.actionType \in {"item.create", "item.clone"}
       IN [status |-> IF ok THEN "success" ELSE "failed",
           error |-> IF ok THEN NoError ELSE ErrTexts[action.id],
           st |-> IF created
                  THEN [st1 EXCEPT !.createdItems = Append(@, st1.nextItem),
                                   !.nextItem = @ + 1]
                  ELSE st1]

executeActionComponent(comp, ctx, st) ==
  LET actionResult == executeOne(comp, ctx, st)
  IN Returned(Result(comp, actionResult.status, actionResult.error, FALSE, <<>>),
              actionResult.st)

\* ConditionEvaluator.evaluate never throws: an evaluation error is "not passed"
evaluate(st) == [passed |-> Peek(st) = 0, st |-> Adv(st)]

executeConditionComponent(comp, ctx, st) ==
  LET condResult == evaluate(st)
  IN Returned(Result(comp, IF condResult.passed THEN "success" ELSE "skipped",
                     NoError, FALSE, <<>>),
              condResult.st)

RECURSIVE executeComponents(_,_,_)
RECURSIVE executeLoop(_,_,_,_,_)
RECURSIVE iterate(_,_,_,_,_,_)
RECURSIVE endIteration(_,_,_,_,_,_,_)
RECURSIVE recordResult(_,_,_,_,_,_)
RECURSIVE iterate_haltsOnFailure(_,_,_,_,_,_)
RECURSIVE endIteration_dropsResults(_,_,_,_,_,_,_)

\* the merge without its filter: every item of the iteration is pushed again
mergeCreatedItems_noFilter(ctxItems, branchItems) == ctxItems \o branchItems

\* ctx.createdItems.push(...branchCtx.createdItems.filter(
\*   (ci) => !ctx.createdItems.some((existing) => existing.id === ci.id)))
mergeCreatedItems(ctxItems, branchItems) ==
  ctxItems \o SelectSeq(branchItems,
                        LAMBDA ci : ~\E e \in 1..Len(ctxItems) : ctxItems[e] = ci)

\* the for-loop over the items ending at the first iteration that holds a
\* failed result
iterate_haltsOnFailure(comp, items, k, childResults, ctx, st) ==
  IF k > Len(items) \/ hasFailure(childResults)
  THEN Returned([Result(comp, IF hasFailure(childResults) THEN "failed" ELSE "success",
                        NoError, TRUE, childResults) EXCEPT !.itemCount = Len(items)], st)
  ELSE LET branchCtx == [ctx EXCEPT !.hasItem = TRUE, !.currentItem = items[k],
                                    !.path = Append(@, k)]
           o == executeComponents(comp.components, branchCtx, [st EXCEPT !.flat = <<>>])
           st2 == [o.st EXCEPT !.flat = st.flat]
       IN IF o.threw THEN Thrown(comp, o.err, st2)
          ELSE iterate_haltsOnFailure(comp, items, k + 1, childResults \o o.results, ctx, st2)

\* the for-loop over the items of executeBranchComponent.  The spread copy
\* branchCtx shares the createdItems array of ctx, so both operands of the
\* merge are the one array the actions of the iteration pushed to.
iterate(comp, items, k, childResults, ctx, st) ==
  IF k > Len(items)
  THEN Returned([Result(comp, IF hasFailure(childResults) THEN "failed" ELSE "success",
                        NoError, TRUE, childResults) EXCEPT !.itemCount = Len(items)], st)
  ELSE LET branchCtx == [ctx EXCEPT !.hasItem = TRUE, !.currentItem = items[k],
                                    !.path = Append(@, k)]
       IN endIteration(comp, items, k, childResults, ctx, st,
                       executeComponents(comp.components, branchCtx,
                                         [st EXCEPT !.flat = <<>>]))

\* the end of one iteration without childResults.push(...iterResults)
endIteration_dropsResults(comp, items, k, childResults, ctx, st, o) ==
  LET st2 == [o.st EXCEPT !.flat = st.flat,
                          !.createdItems = mergeCreatedItems(@, @)]
  IN IF o.threw THEN Thrown(comp, o.err, [o.st EXCEPT !.flat = st.flat])
     ELSE iterate(comp, items, k + 1, childResults, ctx, st2)

\* the end of one iteration: o is what executeComponents returned for the item
endIteration(comp, items, k, childResults, ctx, st, o) ==
  LET st2 == [o.st EXCEPT !.flat = st.flat,
                          !.createdItems = mergeCreatedItems(@, @)]
  IN IF o.threw THEN Thrown(comp, o.err, [o.st EXCEPT !.flat = st.flat])
     ELSE iterate(comp, items, k + 1, childResults \o o.results, ctx, st2)

\* the switch without its created_items case: the branch iterates no item
executeBranchComponent_noCreatedCase(comp, ctx, st) ==
  CASE comp.btype = "related_items" /\ ~ctx.hasItem ->
         Returned(Result(comp, "skipped", eNoSource, FALSE, <<>>), st)
    [] comp.btype = "lookup_items" /\ ~comp.hasQuery ->
         Returned(Result(comp, "failed", eNoQuery, FALSE, <<>>), st)
    [] comp.btype \in {"related_items", "lookup_items"} /\
       (comp.btype = "related_items" => ctx.hasItem) /\
       (comp.btype = "lookup_items" => comp.hasQuery) ->
         LET v == Peek(st)
         IN IF v = 3 THEN Thrown(comp, eUpstream, Adv(st))
            ELSE iterate(comp, [k \in 1..v |-> k], 1, <<>>, ctx, Adv(st))
    [] OTHER -> iterate(comp, <<>>, 1, <<>>, ctx, st)

executeBranchComponent(comp, ctx, st) ==
  CASE comp.btype = "related_items" /\ ~ctx.hasItem ->
         Returned(Result(comp, "skipped", eNoSource, FALSE, <<>>), st)
    [] comp.btype = "lookup_items" /\ ~comp.hasQuery ->
         Returned(Result(comp, "failed", eNoQuery, FALSE, <<>>), st)
    [] comp.btype = "created_items" ->
         iterate(comp, st.createdItems, 1, <<>>, ctx, st)
    [] comp.btype \in {"related_items", "lookup_items"} /\
       (comp.btype = "related_items" => ctx.hasItem) /\
       (comp.btype = "lookup_items" => comp.hasQuery) ->
         LET v == Peek(st)
         IN IF v = 3 THEN Thrown(comp, eUpstream, Adv(st))
            ELSE iterate(comp, [k \in 1..v |-> k], 1, <<>>, ctx, Adv(st))
    [] OTHER -> iterate(comp, <<>>, 1, <<>>, ctx, st)

executeIfElseComponent(comp, ctx, st) ==
  LET condResult == evaluate(st)
      chosen == IF condResult.passed THEN comp.then
                ELSE IF Len(comp.else) > 0 THEN comp.else
                ELSE <<>>
      o == executeComponents(chosen, ctx, condResult.st)
  IN IF o.threw THEN Thrown(comp, o.err, o.st)
     ELSE Returned(Result(comp, IF hasFailure(o.results) THEN "failed" ELSE "success",
                          NoError, TRUE, o.results), o.st)

\* the switch of executeComponents with its try/catch
executeComponent(comp, ctx, st) ==
  LET o == CASE comp.componentType = "action" -> executeActionComponent(comp, ctx, st)
             [] comp.componentType = "condition" -> executeConditionComponent(comp, ctx, st)
             [] comp.componentType = "branch" -> executeBranchComponent(comp, ctx, st)
             [] comp.componentType = "if_else" -> executeIfElseComponent(comp, ctx, st)
             [] OTHER -> Returned(Result(comp, "failed", eUnknownType, FALSE, <<>>), st)
  IN IF o.threw THEN Returned(Result(comp, "failed", o.err, FALSE, <<>>), o.st)
     ELSE o

\* the loop without the break on a condition that was not met
stopsChain_ignoresCondition(comp, result) ==
  /\ comp.componentType = "action" /\ result.status = "failed"
  /\ comp.continueOnError # "true"

\* the loop breaking on every failed action, continueOnError or not
stopsChain_ignoresContinue(comp, result) ==
  \/ comp.componentType = "condition" /\ result.status = "skipped"
  \/ comp.componentType = "action" /\ result.status = "failed"

\* the loop breaking on every failed result, whatever the component type
stopsChain_onAnyFailure(comp, result) ==
  \/ comp.componentType = "condition" /\ result.status = "skipped"
  \/ result.status = "failed" /\ comp.continueOnError # "true"

\* does the loop of executeComponents break after this component?
stopsChain(comp, result) ==
  \/ comp.componentType = "condition" /\ result.status = "skipped"
  \/ /\ comp.componentType = "action" /\ result.status = "failed"
     /\ comp.continueOnError # "true"

executeLoop(components, i, results, ctx, st) ==
  IF i > Len(components)
  THEN [threw |-> FALSE, err |-> NoError, results |-> results, st |-> st]
  ELSE LET comp == components[i]
       IN IF comp.componentType = "null"
          THEN [threw |-> TRUE, err |-> eTypeError, results |-> results, st |-> st]
          ELSE recordResult(components, i, results, ctx, comp,
                            executeComponent(comp, ctx, st))

\* results.push(result) and the break conditions of the loop: o is what the
\* switch produced for components[i]
recordResult(components, i, results, ctx, comp, o) ==
  LET result == o.result
      st2 == [o.st EXCEPT !.flat = Append(@, result),
                          !.log = Append(@, [id |-> comp.id, path |-> ctx.path,
                                             status |-> result.status,
                                             itemCount |-> result.itemCount,
                                             item |-> ctx.currentItem,
                                             createdItems |-> o.st.createdItems,
                                             made |-> o.st.nextItem - 1])]
      results2 == Append(results, result)
  IN IF stopsChain(comp, result)
     THEN [threw |-> FALSE, err |-> NoError, results |-> results2, st |-> st2]
     ELSE executeLoop(components, i + 1, results2, ctx, st2)

executeComponents(components, ctx, st) ==
  executeLoop(components, 1, <<>>, ctx, st)

(***************************************************************************)
(* The persisted rules (Automation rows).  hasComponents is FALSE for a    *)
(* row written in the legacy shape, which has no components value.         *)
(***************************************************************************)
Rule(comps) == [components |-> comps, hasComponents |-> TRUE]

Rules ==
  << Rule(<< Action(1, "absent") >>),
     Rule(<< ChainAction(1, 1), Action(2, "absent") >>),
     Rule(<< Condition(1), Action(2, "absent") >>),
     Rule(<< Action(1, "true"), Action(2, "absent"), Action(3, "false"),
             Action(4, "absent") >>),
     Rule(<< Branch(1, "related_items", FALSE, << Condition(2), Action(3, "absent") >>),
             Action(4, "absent") >>),
     Rule(<< IfElse(1, << Condition(2), Action(3, "absent") >>, << Action(5, "absent") >>),
             Action(4, "absent") >>),
     Rule(<< Action(1, "absent"), NullComp >>),
     [components |-> <<>>, hasComponents |-> FALSE],
     Rule(<< Unknown(1), Branch(2, "lookup_items", FALSE, << Action(4, "absent") >>),
             Action(3, "absent") >>),
     Rule(<< TypedAction(1, "item.create", "absent"),
             Branch(2, "created_items", FALSE, << Action(3, "true") >>),
             Condition(4), Action(5, "absent") >>),
     Rule(<< Branch(6, "lookup_items", TRUE,
                    << IfElse(7, << TypedAction(1, "item.create", "absent") >>,
                                 << TypedAction(2, "item.clone", "true") >>) >>),
             Branch(8, "created_items", FALSE,
                    << TypedAction(3, "item.create", "absent") >>),
             Action(4, "absent") >>) >>

RuleIds == 1..Len(Rules)
GateRules == {1, 2}              \* rules of the gate specification
PlainRules == {1}                \* rules without a chained trigger
ProgramRules == RuleIds \ {2}    \* rules of the single-run specification

\* the rule an automation.trigger action at the head of the program targets
ChainTarget(rule) ==
  LET comps == Rules[rule].components
  IN IF Len(comps) > 0 /\ comps[1].actionType = "automation.trigger"
     THEN comps[1].target ELSE 0

\* number of upstream decisions a walk of the components can consume
RECURSIVE Decisions(_)
Decisions(comps) ==
  IF comps = <<>> THEN 0
  ELSE LET c == Head(comps)
           own == CASE c.componentType \in {"action", "condition"} -> 1
                    [] c.componentType = "branch" -> 1 + 2 * Decisions(c.components)
                    [] c.componentType = "if_else" ->
                         1 + Decisions(c.then) + Decisions(c.else)
                    [] OTHER -> 0
       IN own + Decisions(Tail(comps))

Min(a, b) == IF a < b THEN a ELSE b

TapesOf(rule) ==
  [1..Min(TapeLen, Decisions(Rules[rule].components)) -> TapeVals]

(***************************************************************************)
(* State                                                                   *)
(***************************************************************************)
VARIABLES
  maxConcurrentExecutions,  \* config.maxConcurrentExecutions
  activeExecutions,         \* slots reserved and not released
  executionQueue,           \* ids of the work items waiting, oldest first
  runs,                     \* per trigger arrival: the call and its run
  executions,               \* Store: Execution rows, by id
  automations,              \* Store: ids of the Automation rows that exist
  arrived,                  \* trigger arrivals so far; ids are given in arrival order
  budget                    \* trigger arrivals allowed in the behaviour

\* the TriggerManager, the rows it is started from, and the lifecycle calls
VARIABLES
  running,                  \* TriggerManager.running
  pollingIntervals,         \* rule -> timer registered for it (NoWatcher: no entry)
  cronJobs,                 \* rule -> cron job registered for it (NoWatcher: no entry)
  orphans,                  \* live timers and cron jobs that no map entry refers to
  automationRows,           \* Store: Automation rows (enabled, trigger), by rule
  calls,                    \* start() and reloadAutomation() calls at their await (a bag)
  completed                 \* the lifecycle call that completed last

\* polling: the clock, the upstream service, the bookmark and the poll ticks
VARIABLES
  clock,                    \* new Date()
  upstreamItems,            \* upstream: the items of the catalog, with their createdAt
  upstreamCount,            \* upstream: totalCount of the rule's OQL query
  triggerState,             \* Store: the TriggerState row of the polled rule
  ticks,                    \* pollOnce calls in flight
  emitted,                  \* per item: TriggerEvents handed to the handler for it
  calm                      \* a tick ran alone to completion and nothing happened since

lifeVars == << running, pollingIntervals, cronJobs, orphans, automationRows, calls,
               completed >>
pollVars == << clock, upstreamItems, upstreamCount, triggerState, ticks, emitted, calm >>
tmVars == << lifeVars, pollVars >>

\* one call of a function of the engine: what it was given, what it returned
VARIABLES
  statusWatch,              \* pollStatusChanged: the item, its history, the events
  probe                     \* the call: operation, input, output

callVars == << statusWatch, probe >>

vars == << maxConcurrentExecutions, activeExecutions, executionQueue, runs,
           executions, automations, arrived, budget, tmVars, callVars >>

NoRun ==
  [pc |-> "idle", rule |-> 0, hasItem |-> FALSE, parent |-> 0, chained |-> "no",
   results |-> <<>>, flat |-> <<>>, log |-> <<>>, createdItems |-> <<>>, made |-> 0,
   err |-> NoError,
   wasQueued |-> FALSE, walked |-> FALSE, walkThrew |-> FALSE, storeThrew |-> FALSE,
   caught |-> FALSE, condHalt |-> FALSE, failedBeforeHalt |-> FALSE]

NoExecution ==
  [exists |-> FALSE, automationId |-> 0, status |-> "none", error |-> NoError,
   componentResults |-> <<>>, completedAt |-> FALSE, durationMs |-> FALSE]

InProgressPcs == {"create", "walk", "awaitChild", "update", "catch"}
SettledPcs == {"resolved", "rejected"}

(***************************************************************************)
(* Trigger manager: data                                                   *)
(***************************************************************************)
MaxTmRules == 1        \* rules the trigger manager is asked to watch
MaxOrphans == 2        \* live timers and cron jobs no map entry refers to
MaxCalls == 2          \* start() / reloadAutomation() calls waiting at an await
MaxClock == 1          \* the clock runs from 0 to MaxClock
MaxItems == 1          \* items the upstream catalog can hold
MaxCount == 1          \* largest totalCount of the rule's OQL query
MaxTicks == 2          \* pollOnce calls in flight at one time
MaxEmits == 2          \* TriggerEvents counted per item

TmRules == 1..MaxTmRules
ItemIds == 1..MaxItems

\* TriggerConfig: the fields the trigger manager looks at
Trigger(type, cron, triggerOn) == [type |-> type, cron |-> cron, triggerOn |-> triggerOn]
NoTrigger == Trigger("none", "none", "none")
ItemCreatedTrigger == Trigger("item.created", "none", "none")
ScheduleTrigger(cron) == Trigger("schedule", cron, "none")
ManualTrigger == Trigger("manual", "none", "none")
OqlMatchTrigger(triggerOn) == Trigger("oql.match", "none", triggerOn)

\* the triggers of the lifecycle specifications; the cron field of a stored
\* schedule trigger is any non-empty string, so CronJob may reject it
LifecycleTriggers ==
  {ItemCreatedTrigger, ScheduleTrigger("valid"), ScheduleTrigger("invalid"), ManualTrigger}

\* the triggers of the polling specification
PolledTriggers ==
  {ItemCreatedTrigger} \cup
  {OqlMatchTrigger(policy) : policy \in {"any_results", "new_results", "count_change"}}

\* a timer (setInterval) or a cron job, with the rule and trigger its
\* callback closes over
NoWatcher == [live |-> FALSE, rule |-> 0, kind |-> "none", trigger |-> NoTrigger]
Watcher(rule, kind, trigger) ==
  [live |-> TRUE, rule |-> rule, kind |-> kind, trigger |-> trigger]
NoRow == [exists |-> FALSE, enabled |-> FALSE, trigger |-> NoTrigger]
NoCompletion == [op |-> "none", rule |-> 0]

\* lastSeenData: the fingerprints seen and the OQL count (-1: no oqlCount key)
NoLastSeen == [hashes |-> {}, oqlCount |-> -1]
NoTriggerState == [exists |-> FALSE, lastCheckedAt |-> 0, lastSeenData |-> NoLastSeen]

NoItem == [exists |-> FALSE, createdAt |-> 0]

\* a pollOnce call: its position, its locals, and what it has done so far
NoTick ==
  [pc |-> "idle", now |-> 0, lastCheckedAt |-> 0, lastSeen |-> NoLastSeen, items |-> << >>,
   item |-> 0, currentCount |-> 0, failed |-> FALSE,
   emits |-> 0, follows |-> FALSE, clean |-> FALSE]

\* new TriggerManager(...): not running, nothing installed
ManagerConstructed ==
  /\ running = FALSE
  /\ pollingIntervals = [r \in TmRules |-> NoWatcher]
  /\ cronJobs = [r \in TmRules |-> NoWatcher]
  /\ orphans = EmptyBag
  /\ calls = EmptyBag
  /\ completed = NoCompletion

\* no poll has run
PollingIdle ==
  /\ clock = 0
  /\ upstreamItems = [i \in ItemIds |-> NoItem]
  /\ upstreamCount = 0
  /\ triggerState = NoTriggerState
  /\ ticks = EmptyBag
  /\ emitted = [i \in ItemIds |-> 0]
  /\ calm = FALSE

\* the trigger manager as the executor's constructor leaves it
NoStatusWatch == [copy |-> "none"]
NoProbe == [op |-> "none"]
NoCalls == statusWatch = NoStatusWatch /\ probe = NoProbe

TmConstructed ==
  /\ ManagerConstructed
  /\ automationRows = [r \in TmRules |-> NoRow]
  /\ PollingIdle

\* constructor: config?.maxConcurrentExecutions || 10
configuredMax(n) == IF n = 0 THEN DefaultMaxConcurrent ELSE n

InitWith(ruleSet, allowed) ==
  /\ TmConstructed
  /\ NoCalls
  /\ \E n \in 0..MaxCap : maxConcurrentExecutions = configuredMax(n)
  /\ activeExecutions = 0
  /\ executionQueue = <<>>
  /\ runs = [i \in Ids |-> NoRun]
  /\ executions = [i \in Ids |-> NoExecution]
  /\ automations = ruleSet
  /\ arrived = 0
  /\ budget = allowed

Init == InitWith(GateRules, MaxTriggers)

(***************************************************************************)
(* The gate: executeAutomation, drainQueue                                 *)
(***************************************************************************)
\* the test with > for >=
gateSaturated_strict(active) == active > maxConcurrentExecutions

\* executeAutomation's test: is the gate saturated?
gateSaturated(active) == active >= maxConcurrentExecutions

\* runExecution up to its first await: reserve the slot, issue the create
startRun(g, id) ==
  [g EXCEPT !.active = @ + 1, !.runs[id].pc = "create"]

\* drainQueue taking the newest work item (pop for shift)
RECURSIVE drainQueue_lifo(_)
drainQueue_lifo(g) ==
  IF Len(g.queue) > 0 /\ g.active < maxConcurrentExecutions
  THEN LET next == g.queue[Len(g.queue)]
       IN drainQueue_lifo(startRun([g EXCEPT !.queue = SubSeq(@, 1, Len(@) - 1)], next))
  ELSE g

RECURSIVE drainQueue(_)
drainQueue(g) ==
  IF Len(g.queue) > 0 /\ g.active < maxConcurrentExecutions
  THEN LET next == Head(g.queue)
       IN drainQueue(startRun([g EXCEPT !.queue = Tail(@)], next))
  ELSE g

\* the end of a run giving its slot back without draining the queue
release_withoutDrain(g) == [g EXCEPT !.active = @ - 1]

\* the end of a run that reaches it: activeExecutions--, drainQueue()
release(g) == drainQueue([g EXCEPT !.active = @ - 1])

Gate == [queue |-> executionQueue, active |-> activeExecutions, runs |-> runs]

SetGate(g) ==
  /\ executionQueue' = g.queue
  /\ activeExecutions' = g.active
  /\ runs' = g.runs

\* arrivals still owed to runs of chaining rules that have not chained yet
Reserved ==
  Cardinality({i \in Ids : /\ runs[i].pc \in {"queued", "create", "walk"}
                           /\ runs[i].chained = "no"
                           /\ ChainTarget(runs[i].rule) # 0})

NewRun(rule, hasItem, parent, pc) ==
  [NoRun EXCEPT !.pc = pc, !.rule = rule, !.hasItem = hasItem, !.parent = parent,
                !.wasQueued = (pc = "queued")]

\* a chaining parent awaits the call it made (chainTrigger awaits triggerManually)
parentWaits(parent) ==
  IF parent = 0 THEN runs ELSE [runs EXCEPT ![parent].pc = "awaitChild"]

\* executeAutomation for the arrival id: enqueue when saturated
enqueue(id, rule, hasItem, parent) ==
  /\ gateSaturated(activeExecutions)
  /\ executionQueue' = Append(executionQueue, id)
  /\ runs' = [parentWaits(parent) EXCEPT ![id] = NewRun(rule, hasItem, parent, "queued")]
  /\ UNCHANGED activeExecutions

\* executeAutomation for the arrival id: run at once when a slot is free
admit(id, rule, hasItem, parent) ==
  /\ ~gateSaturated(activeExecutions)
  /\ activeExecutions' = activeExecutions + 1
  /\ runs' = [parentWaits(parent) EXCEPT ![id] = NewRun(rule, hasItem, parent, "create")]
  /\ UNCHANGED executionQueue

\* the event carries an item or not; it matters to related_items branches only
RECURSIVE usesTriggerItem(_)
usesTriggerItem(comps) ==
  \E i \in 1..Len(comps) :
     \/ comps[i].btype = "related_items"
     \/ usesTriggerItem(comps[i].then) \/ usesTriggerItem(comps[i].else)

ItemChoices(rule) ==
  IF usesTriggerItem(Rules[rule].components) THEN BOOLEAN ELSE {FALSE}

\* a poll/cron event (handleTriggerEvent) or a manual trigger (triggerManually)
\* of an existing rule arrives while the gate is saturated
TriggerQueued ==
  \E rule \in automations : \E hasItem \in ItemChoices(rule) :
    /\ arrived + 1 + Reserved + (IF ChainTarget(rule) # 0 THEN 1 ELSE 0) <= budget
    /\ enqueue(arrived + 1, rule, hasItem, 0)
    /\ arrived' = arrived + 1
    /\ UNCHANGED << tmVars, callVars, maxConcurrentExecutions, executions, automations, budget >>

\* ... or while a slot is free
TriggerAdmitted ==
  \E rule \in automations : \E hasItem \in ItemChoices(rule) :
    /\ arrived + 1 + Reserved + (IF ChainTarget(rule) # 0 THEN 1 ELSE 0) <= budget
    /\ admit(arrived + 1, rule, hasItem, 0)
    /\ arrived' = arrived + 1
    /\ UNCHANGED << tmVars, callVars, maxConcurrentExecutions, executions, automations, budget >>

(***************************************************************************)
(* Chained triggers: the automation.trigger action calls triggerManually   *)
(* and awaits it while its own run keeps its slot.                         *)
(***************************************************************************)
CanChain(id) ==
  /\ runs[id].pc = "walk"
  /\ runs[id].chained = "no"
  /\ ChainTarget(runs[id].rule) # 0

ChainQueued ==
  \E id \in Ids :
    /\ CanChain(id)
    /\ ChainTarget(runs[id].rule) \in automations
    /\ arrived < budget
    /\ enqueue(arrived + 1, ChainTarget(runs[id].rule), FALSE, id)
    /\ arrived' = arrived + 1
    /\ UNCHANGED << tmVars, callVars, maxConcurrentExecutions, executions, automations, budget >>

ChainAdmitted ==
  \E id \in Ids :
    /\ CanChain(id)
    /\ ChainTarget(runs[id].rule) \in automations
    /\ arrived < budget
    /\ admit(arrived + 1, ChainTarget(runs[id].rule), FALSE, id)
    /\ arrived' = arrived + 1
    /\ UNCHANGED << tmVars, callVars, maxConcurrentExecutions, executions, automations, budget >>

\* triggerManually: "Automation not found" when the target does not exist
ChainNotFound ==
  \E id \in Ids :
    /\ CanChain(id)
    /\ ChainTarget(runs[id].rule) \notin automations
    /\ runs' = [runs EXCEPT ![id].chained = "failed"]
    /\ UNCHANGED << tmVars, callVars, maxConcurrentExecutions, activeExecutions, executionQueue,
                    executions, automations, arrived, budget >>

\* the awaited call settles: the action succeeds iff the call resolved
ChainReturn ==
  \E id \in Ids, child \in Ids :
    /\ runs[id].pc = "awaitChild"
    /\ runs[child].parent = id
    /\ runs[child].pc \in SettledPcs
    /\ runs' = [runs EXCEPT ![id].pc = "walk",
                            ![id].chained = IF runs[child].pc = "resolved"
                                            THEN "ok" ELSE "failed"]
    /\ UNCHANGED << tmVars, callVars, maxConcurrentExecutions, activeExecutions, executionQueue,
                    executions, automations, arrived, budget >>

(***************************************************************************)
(* runExecution                                                            *)
(***************************************************************************)
\* prisma.execution.create({ data: { automationId, status: 'RUNNING', ... } })
createData(rule) ==
  [NoExecution EXCEPT !.exists = TRUE, !.automationId = rule, !.status = "RUNNING"]

\* the normal-path update writing SKIPPED for a run a condition halted
finalData_skipped(row, componentResults) ==
  [row EXCEPT !.status = IF hasFailure(componentResults) THEN "FAILED"
                         ELSE IF \E i \in 1..Len(componentResults) :
                                    componentResults[i].status = "skipped"
                              THEN "SKIPPED" ELSE "SUCCESS",
              !.componentResults = componentResults,
              !.error = IF hasFailure(componentResults)
                        THEN findFirstError(componentResults) ELSE NoError,
              !.completedAt = TRUE,
              !.durationMs = TRUE]

\* the data of the update on the normal path
finalData(row, componentResults) ==
  [row EXCEPT !.status = IF hasFailure(componentResults) THEN "FAILED" ELSE "SUCCESS",
              !.componentResults = componentResults,
              !.error = IF hasFailure(componentResults)
                        THEN findFirstError(componentResults) ELSE NoError,
              !.completedAt = TRUE,
              !.durationMs = TRUE]

\* the catch-block update without the status
catchData_noStatus(row, ctxComponentResults, message) ==
  [row EXCEPT !.componentResults = ctxComponentResults,
              !.error = message,
              !.completedAt = TRUE,
              !.durationMs = TRUE]

\* the data of the update in the catch block
catchData(row, ctxComponentResults, message) ==
  [row EXCEPT !.status = "FAILED",
              !.componentResults = ctxComponentResults,
              !.error = message,
              !.completedAt = TRUE,
              !.durationMs = TRUE]

\* a settled call: the locals of runExecution are gone
settled(run, pc) ==
  [run EXCEPT !.pc = pc, !.results = <<>>, !.flat = <<>>, !.log = <<>>,
              !.createdItems = <<>>, !.made = 0]

\* the create succeeds: the rule row exists (foreign key)
CreateOk ==
  \E id \in Ids :
    /\ runs[id].pc = "create"
    /\ runs[id].rule \in automations
    /\ executions' = [executions EXCEPT ![id] = createData(runs[id].rule)]
    /\ runs' = [runs EXCEPT ![id].pc = "walk"]
    /\ UNCHANGED << tmVars, callVars, maxConcurrentExecutions, activeExecutions, executionQueue,
                    automations, arrived, budget >>

\* the create throws: the rejection leaves runExecution before its try block
CreateThrows ==
  \E id \in Ids :
    /\ runs[id].pc = "create"
    /\ runs' = [runs EXCEPT ![id] = settled([@ EXCEPT !.storeThrew = TRUE], "rejected")]
    /\ UNCHANGED << tmVars, callVars, maxConcurrentExecutions, activeExecutions, executionQueue,
                    executions, automations, arrived, budget >>

InitialCtx(id) ==
  [hasItem |-> runs[id].hasItem, currentItem |-> 0, path |-> <<>>,
   chained |-> runs[id].chained]

InitialSt(tape) ==
  [tape |-> tape, pos |-> 1, flat |-> <<>>, log |-> <<>>,
   createdItems |-> <<>>, nextItem |-> 1]

\* const componentResults = await this.executeComponents(components, ctx)
walkOf(rule, ctx, st) ==
  IF ~Rules[rule].hasComponents
  THEN [threw |-> TRUE, err |-> eNotIterable, results |-> <<>>, st |-> st]
  ELSE executeComponents(Rules[rule].components, ctx, st)

\* the walk ended normally on a top-level condition that was not met
haltedByCondition(w) ==
  /\ ~w.threw
  /\ Len(w.results) > 0
  /\ w.results[Len(w.results)].componentType = "condition"
  /\ w.results[Len(w.results)].status = "skipped"

\* the component walk of the run, to the point where an update is issued
Walk ==
  \E id \in Ids :
    /\ runs[id].pc = "walk"
    /\ ChainTarget(runs[id].rule) # 0 => runs[id].chained # "no"
    /\ \E tape \in TapesOf(runs[id].rule) :
         LET w == walkOf(runs[id].rule, InitialCtx(id), InitialSt(tape))
         IN runs' = [runs EXCEPT ![id] =
                       [@ EXCEPT !.pc = IF w.threw THEN "catch" ELSE "update",
                                 !.results = w.results,
                                 !.flat = w.st.flat,
                                 !.log = w.st.log,
                                 !.createdItems = w.st.createdItems,
                                 !.made = w.st.nextItem - 1,
                                 !.err = w.err,
                                 !.walked = TRUE,
                                 !.walkThrew = w.threw,
                                 !.caught = w.threw,
                                 !.condHalt = haltedByCondition(w),
                                 !.failedBeforeHalt = haltedByCondition(w) /\
                                    (\E k \in 1..Len(w.st.log) : w.st.log[k].status = "failed")]]
    /\ UNCHANGED << tmVars, callVars, maxConcurrentExecutions, activeExecutions, executionQueue,
                    executions, automations, arrived, budget >>

\* the update of the normal path succeeds; the slot is released, the queue
\* drained and the call resolved with the execution id
UpdateOk ==
  \E id \in Ids :
    /\ runs[id].pc = "update"
    /\ executions[id].exists
    /\ executions' = [executions EXCEPT ![id] = finalData(@, runs[id].results)]
    /\ SetGate(release([Gate EXCEPT !.runs[id] = settled(@, "resolved")]))
    /\ UNCHANGED << tmVars, callVars, maxConcurrentExecutions, automations, arrived, budget >>

\* the update of the normal path throws: control passes to the catch block
UpdateThrows ==
  \E id \in Ids :
    /\ runs[id].pc = "update"
    /\ runs' = [runs EXCEPT ![id].pc = "catch", ![id].err = eStore,
                            ![id].storeThrew = TRUE, ![id].caught = TRUE]
    /\ UNCHANGED << tmVars, callVars, maxConcurrentExecutions, activeExecutions, executionQueue,
                    executions, automations, arrived, budget >>

\* the update of the catch block succeeds
CatchUpdateOk ==
  \E id \in Ids :
    /\ runs[id].pc = "catch"
    /\ executions[id].exists
    /\ executions' = [executions EXCEPT ![id] = catchData(@, runs[id].flat, runs[id].err)]
    /\ SetGate(release([Gate EXCEPT !.runs[id] = settled(@, "resolved")]))
    /\ UNCHANGED << tmVars, callVars, maxConcurrentExecutions, automations, arrived, budget >>

\* the update of the catch block throws: the rejection leaves runExecution
CatchUpdateThrows ==
  \E id \in Ids :
    /\ runs[id].pc = "catch"
    /\ runs' = [runs EXCEPT ![id] = settled([@ EXCEPT !.storeThrew = TRUE], "rejected")]
    /\ UNCHANGED << tmVars, callVars, maxConcurrentExecutions, activeExecutions, executionQueue,
                    executions, automations, arrived, budget >>

(***************************************************************************)
(* Rule CRUD: deleting an Automation row deletes its Execution rows        *)
(* (foreign key ON DELETE CASCADE)                                         *)
(***************************************************************************)
DeleteAutomation ==
  \E a \in automations :
    /\ automations' = automations \ {a}
    /\ executions' = [i \in Ids |-> IF executions[i].automationId = a
                                    THEN NoExecution ELSE executions[i]]
    /\ UNCHANGED << tmVars, callVars, maxConcurrentExecutions, activeExecutions, executionQueue,
                    runs, arrived, budget >>

(***************************************************************************)
(* Specifications                                                          *)
(***************************************************************************)
RunStep ==
  \/ CreateOk \/ CreateThrows \/ Walk
  \/ UpdateOk \/ UpdateThrows \/ CatchUpdateOk \/ CatchUpdateThrows

Next ==
  \/ TriggerQueued \/ TriggerAdmitted
  \/ ChainQueued \/ ChainAdmitted \/ ChainNotFound \/ ChainReturn
  \/ CreateOk \/ CreateThrows \/ Walk
  \/ UpdateOk \/ UpdateThrows \/ CatchUpdateOk \/ CatchUpdateThrows
  \/ DeleteAutomation

Spec == Init /\ [][Next]_vars

\* the gate under rules that do not chain, with the progress the event loop
\* gives every pending continuation of a run
FairInit == InitWith(PlainRules, MaxTriggers)

FairNext ==
  \/ TriggerQueued \/ TriggerAdmitted
  \/ CreateOk \/ CreateThrows \/ Walk
  \/ UpdateOk \/ UpdateThrows \/ CatchUpdateOk \/ CatchUpdateThrows
  \/ DeleteAutomation

FairSpec == FairInit /\ [][FairNext]_vars /\ WF_vars(RunStep)

\* one run of one stored rule, over every program shape of Rules
RunInit == \E r \in ProgramRules : InitWith({r}, 1)

RunNext ==
  \/ TriggerAdmitted
  \/ CreateOk \/ CreateThrows \/ Walk
  \/ UpdateOk \/ UpdateThrows \/ CatchUpdateOk \/ CatchUpdateThrows
  \/ DeleteAutomation

RunSpec == RunInit /\ [][RunNext]_vars

(***************************************************************************)
(* Trigger manager: startAll, startOne, stopOne, stopAll                   *)
(***************************************************************************)
exVars == << maxConcurrentExecutions, activeExecutions, executionQueue, runs,
             executions, automations, arrived, budget >>

\* an executor that runs nothing, under the default configuration
ExecutorAtRest ==
  /\ maxConcurrentExecutions = DefaultMaxConcurrent
  /\ activeExecutions = 0
  /\ executionQueue = <<>>
  /\ runs = [i \in Ids |-> NoRun]
  /\ executions = [i \in Ids |-> NoExecution]
  /\ automations = {}
  /\ arrived = 0
  /\ budget = 0

ExecutorIdle == ExecutorAtRest /\ NoCalls

Tm == [running |-> running, pollingIntervals |-> pollingIntervals,
       cronJobs |-> cronJobs, orphans |-> orphans]

SetTm(tm) ==
  /\ running' = tm.running
  /\ pollingIntervals' = tm.pollingIntervals
  /\ cronJobs' = tm.cronJobs
  /\ orphans' = tm.orphans

\* map.set(id, handle): the handle the entry held before stays live, and
\* nothing refers to it any more
orphaned(tm, previous) ==
  IF previous.live THEN tm.orphans (+) SetToBag({previous}) ELSE tm.orphans

\* setInterval(...) and pollingIntervals.set(automation.id, interval)
startPolling(tm, automation, trigger) ==
  [tm EXCEPT !.pollingIntervals[automation.id] = Watcher(automation.id, "timer", trigger),
             !.orphans = orphaned(tm, tm.pollingIntervals[automation.id])]

\* new CronJob(trigger.cron, ..., true, ...) and cronJobs.set(automation.id,
\* job) in a try/catch: a cron string CronJob rejects is logged and nothing
\* is installed
startCron(tm, automation, trigger) ==
  IF trigger.cron = "invalid" THEN tm
  ELSE [tm EXCEPT !.cronJobs[automation.id] = Watcher(automation.id, "cron", trigger),
                  !.orphans = orphaned(tm, tm.cronJobs[automation.id])]

startOne(tm, automation) ==
  IF ~tm.running THEN tm
  ELSE CASE automation.trigger.type = "schedule" ->
              startCron(tm, automation, automation.trigger)
         [] automation.trigger.type \in {"manual", "webhook.received"} -> tm
         [] OTHER -> startPolling(tm, automation, automation.trigger)

\* clearInterval / cron.stop() of the handles the maps hold for the rule
stopOne(tm, automationId) ==
  [tm EXCEPT !.pollingIntervals[automationId] = NoWatcher,
             !.cronJobs[automationId] = NoWatcher]

\* clears the timers and jobs of the two maps; running = false
stopAll(tm) ==
  [tm EXCEPT !.running = FALSE,
             !.pollingIntervals = [r \in TmRules |-> NoWatcher],
             !.cronJobs = [r \in TmRules |-> NoWatcher]]

RECURSIVE startEach(_,_)
startEach(tm, enabled) ==
  IF enabled = << >> THEN tm
  ELSE startEach(startOne(tm, Head(enabled)), Tail(enabled))

startAll(tm, loaded) ==
  startEach([tm EXCEPT !.running = TRUE], SelectSeq(loaded, LAMBDA a : a.enabled))

\* the bound on the handles nothing refers to
Room(tm) == BagCardinality(tm.orphans) <= MaxOrphans

(***************************************************************************)
(* Executor lifecycle: start, stop, reloadAutomation, and the routes that  *)
(* write an Automation row and reload it                                   *)
(***************************************************************************)
toAutomationRule(id, row) == [id |-> id, enabled |-> row.enabled, trigger |-> row.trigger]

\* findMany({ where: { enabled: true } }) in executionOrder (here: by id)
loadAutomations(rows) ==
  LET ids == SelectSeq([r \in TmRules |-> r],
                       LAMBDA r : rows[r].exists /\ rows[r].enabled)
  IN [k \in 1..Len(ids) |-> toAutomationRule(ids[k], rows[ids[k]])]

\* findUnique: the rule, or nothing
findAutomation(rows, id) ==
  IF rows[id].exists THEN << toAutomationRule(id, rows[id]) >> ELSE << >>

Call(op, loaded) == [op |-> op, loaded |-> loaded]
CallsInFlight == BagToSet(calls)

\* start(): the login succeeded and loadAutomations has read the rows; the
\* call waits for the result
StartLoaded ==
  /\ BagCardinality(calls) < MaxCalls
  /\ calls' = calls (+) SetToBag({Call("start", loadAutomations(automationRows))})
  /\ completed' = NoCompletion
  /\ UNCHANGED << running, pollingIntervals, cronJobs, orphans, automationRows,
                  pollVars, exVars, callVars >>

\* start(): triggerManager.startAll(automations)
StartAll ==
  \E c \in CallsInFlight :
    /\ c.op = "start"
    /\ Room(startAll(Tm, c.loaded))
    /\ SetTm(startAll(Tm, c.loaded))
    /\ calls' = calls (-) SetToBag({c})
    /\ completed' = [op |-> "start", rule |-> 0]
    /\ UNCHANGED << automationRows, pollVars, exVars, callVars >>

\* stop(): triggerManager.stopAll()
Stop ==
  /\ SetTm(stopAll(Tm))
  /\ completed' = [op |-> "stop", rule |-> 0]
  /\ UNCHANGED << calls, automationRows, pollVars, exVars, callVars >>

\* reloadAutomation to its await: stopOne, then the read of the row.  A rule
\* that is absent or disabled ends the call there.
reloadBegin(rows, id) ==
  LET found == findAutomation(rows, id)
      restart == found # << >> /\ found[1].enabled
  IN /\ restart => BagCardinality(calls) < MaxCalls
     /\ SetTm(stopOne(Tm, id))
     /\ calls' = IF restart THEN calls (+) SetToBag({Call("reload", found)}) ELSE calls
     /\ completed' = IF restart THEN NoCompletion ELSE [op |-> "reload", rule |-> id]

ReloadCalled ==
  \E id \in TmRules :
    /\ reloadBegin(automationRows, id)
    /\ UNCHANGED << automationRows, pollVars, exVars, callVars >>

\* reloadAutomation after its await: startOne(automation)
ReloadFinish ==
  \E c \in CallsInFlight :
    /\ c.op = "reload"
    /\ Room(startOne(Tm, c.loaded[1]))
    /\ SetTm(startOne(Tm, c.loaded[1]))
    /\ calls' = calls (-) SetToBag({c})
    /\ completed' = [op |-> "reload", rule |-> c.loaded[1].id]
    /\ UNCHANGED << automationRows, pollVars, exVars, callVars >>

\* the create, update, enable and disable routes: write the row, then reload
RoutePut ==
  \E id \in TmRules, enabled \in BOOLEAN, trigger \in LifecycleTriggers :
    LET row == [exists |-> TRUE, enabled |-> enabled, trigger |-> trigger]
    IN /\ automationRows[id] # row
       /\ automationRows' = [automationRows EXCEPT ![id] = row]
       /\ reloadBegin(automationRows', id)
       /\ UNCHANGED << pollVars, exVars, callVars >>

\* the delete route: delete the row, then reload
RouteDelete ==
  \E id \in TmRules :
    /\ automationRows[id].exists
    /\ automationRows' = [automationRows EXCEPT ![id] = NoRow]
    /\ reloadBegin(automationRows', id)
    /\ UNCHANGED << pollVars, exVars, callVars >>

\* the engine with its REST routes
WatcherInit == ExecutorIdle /\ TmConstructed

WatcherNext ==
  \/ RoutePut \/ RouteDelete \/ ReloadCalled \/ ReloadFinish
  \/ StartLoaded \/ StartAll \/ Stop

WatcherSpec == WatcherInit /\ [][WatcherNext]_vars

\* start() and stop() only, over the rows the Store may hold
StoredRows ==
  {NoRow} \cup {[exists |-> TRUE, enabled |-> e, trigger |-> t] :
                  e \in BOOLEAN, t \in LifecycleTriggers}

StartStopInit ==
  /\ ExecutorIdle
  /\ ManagerConstructed
  /\ PollingIdle
  /\ automationRows \in [TmRules -> StoredRows]

StartStopNext == StartLoaded \/ StartAll \/ Stop

StartStopSpec == StartStopInit /\ [][StartStopNext]_vars

(***************************************************************************)
(* Polling: pollOnce, pollItemCreated, pollOqlMatch.  One rule is polled;  *)
(* a tick runs with the trigger its timer closed over.                     *)
(***************************************************************************)
PolledRule == 1
TickTrigger == pollingIntervals[PolledRule].trigger

TicksInFlight == BagToSet(ticks)
Alone(tick) == ticks = SetToBag({tick})

\* one call in flight moves on, or is over
Leaves(tick) == ticks (-) SetToBag({tick})
Moves(tick, next) == Leaves(tick) (+) SetToBag({next})

\* hashEvent(`item.created:${item.id}`): one fingerprint per item
hashEvent(kind, itemId) == << kind, itemId >>

\* the dedup check finding nothing
seenBefore_never(lastSeen, hash) == FALSE

\* if (lastSeen[hash]) continue
seenBefore(lastSeen, hash) == hash \in lastSeen.hashes

\* listItems({ sortBy: 'createdAt', sortOrder: 'desc', limit: 20 })
RECURSIVE sortedDesc(_)
sortedDesc(ids) ==
  IF ids = {} THEN << >>
  ELSE LET newest == CHOOSE i \in ids :
                       \A j \in ids : \/ upstreamItems[i].createdAt > upstreamItems[j].createdAt
                                      \/ /\ upstreamItems[i].createdAt = upstreamItems[j].createdAt
                                         /\ i <= j
       IN << newest >> \o sortedDesc(ids \ {newest})

listItems == sortedDesc({i \in ItemIds : upstreamItems[i].exists})

\* a Store write that carries new Date() is issued: the date is the argument
\* of the call, the row changes when the Store applies it
issueCreate(tick) == [tick EXCEPT !.pc = "create", !.now = clock]
issueUpdate(tick) == [tick EXCEPT !.pc = "update", !.now = clock, !.item = 0]

\* the for-loop of pollItemCreated up to its next await: the items that are
\* not newer than the bookmark or that were seen are passed over
RECURSIVE toNextEvent(_)
toNextEvent(tick) ==
  IF tick.items = << >> THEN issueUpdate(tick)
  ELSE LET item == Head(tick.items)
           rest == [tick EXCEPT !.items = Tail(@)]
       IN IF /\ upstreamItems[item].createdAt > tick.lastCheckedAt
             /\ ~seenBefore(tick.lastSeen, hashEvent("item.created", item))
          THEN [rest EXCEPT !.pc = "handler", !.item = item, !.emits = @ + 1]
          ELSE toNextEvent(rest)

\* shouldTrigger without the prevCount >= 0 guard of its comparisons
shouldTrigger_firstFires(triggerOn, currentCount, prevCount) ==
  CASE triggerOn = "any_results" -> currentCount > 0
    [] triggerOn = "new_results" -> currentCount > prevCount
    [] triggerOn = "count_change" -> currentCount # prevCount
    [] OTHER -> FALSE

\* pollOqlMatch: shouldTrigger
shouldTrigger(triggerOn, currentCount, prevCount) ==
  CASE triggerOn = "any_results" -> currentCount > 0
    [] triggerOn = "new_results" -> currentCount > prevCount /\ prevCount >= 0
    [] triggerOn = "count_change" -> currentCount # prevCount /\ prevCount >= 0
    [] OTHER -> FALSE

\* the exception reaches the catch of the timer callback
thrown(tick) ==
  [NoTick EXCEPT !.pc = "caught", !.failed = TRUE, !.emits = tick.emits,
                 !.follows = tick.follows, !.clean = tick.clean]

\* an exception inside pollItemCreated with its catch block of pollOqlMatch
itemPollFails_swallowed(tick) == issueUpdate([tick EXCEPT !.failed = TRUE])

\* an exception leaves pollItemCreated and pollOnce: the tick ends, logged
itemPollFails(tick) == thrown(tick)

\* an exception inside pollOqlMatch is caught and logged there: pollOnce
\* goes on to its final update
oqlPollFails(tick) == issueUpdate([tick EXCEPT !.failed = TRUE])

\* something happened that a tick in flight may or may not have seen
notClean(tick) == [tick EXCEPT !.clean = FALSE]
disturbed(tks) == BagOfAll(notClean, tks)

\* the interval fires (or the initial poll of startPolling runs): pollOnce
\* is called and reads the TriggerState row
TickStarts ==
  /\ running /\ pollingIntervals[PolledRule].live
  /\ BagCardinality(ticks) < MaxTicks
  /\ ticks' = disturbed(ticks) (+)
                 SetToBag({[NoTick EXCEPT !.pc = "find",
                                          !.follows = calm /\ ticks = EmptyBag,
                                          !.clean = ticks = EmptyBag]})
  /\ calm' = FALSE
  /\ UNCHANGED << clock, upstreamItems, upstreamCount, triggerState, emitted,
                  lifeVars, exVars, callVars >>

\* findUnique returns the row
StateFound ==
  \E tick \in TicksInFlight :
    /\ tick.pc = "find"
    /\ triggerState.exists
    /\ ticks' = Moves(tick, [tick EXCEPT !.pc = "poll",
                              !.lastCheckedAt = triggerState.lastCheckedAt,
                              !.lastSeen = triggerState.lastSeenData])
    /\ UNCHANGED << clock, upstreamItems, upstreamCount, triggerState, emitted, calm,
                    lifeVars, exVars, callVars >>

\* findUnique returns nothing: the create is issued
StateMissing ==
  \E tick \in TicksInFlight :
    /\ tick.pc = "find"
    /\ ~triggerState.exists
    /\ ticks' = Moves(tick, issueCreate(tick))
    /\ UNCHANGED << clock, upstreamItems, upstreamCount, triggerState, emitted, calm,
                    lifeVars, exVars, callVars >>

\* create({ automationId, lastCheckedAt: new Date(), lastSeenData: {} });
\* automationId is unique, so the create of a row that exists throws
StateCreated ==
  \E tick \in TicksInFlight :
    /\ tick.pc = "create"
    /\ ~triggerState.exists
    /\ triggerState' = [exists |-> TRUE, lastCheckedAt |-> tick.now,
                        lastSeenData |-> NoLastSeen]
    /\ ticks' = Moves(tick, [tick EXCEPT !.pc = "poll",
                              !.lastCheckedAt = tick.now,
                              !.lastSeen = NoLastSeen])
    /\ UNCHANGED << clock, upstreamItems, upstreamCount, emitted, calm,
                    lifeVars, exVars, callVars >>

\* a Store call of pollOnce itself throws (find, create, final update): the
\* exception leaves pollOnce
StoreCallThrows ==
  \E tick \in TicksInFlight :
    /\ tick.pc \in {"find", "create", "update"}
    /\ ticks' = Moves(tick, thrown(tick))
    /\ UNCHANGED << clock, upstreamItems, upstreamCount, triggerState, emitted, calm,
                    lifeVars, exVars, callVars >>

\* the catch of the timer callback logs the error: the tick is over
FailureLogged ==
  \E tick \in TicksInFlight :
    /\ tick.pc = "caught"
    /\ ticks' = Leaves(tick)
    /\ UNCHANGED << clock, upstreamItems, upstreamCount, triggerState, emitted, calm,
                    lifeVars, exVars, callVars >>

\* pollItemCreated: listItems returns; the first new, unseen item is handed
\* to the handler
ItemsListed ==
  \E tick \in TicksInFlight :
    /\ tick.pc = "poll"
    /\ TickTrigger.type = "item.created"
    /\ LET next == toNextEvent([tick EXCEPT !.items = listItems])
       IN /\ next.item # 0 => emitted[next.item] < MaxEmits
          /\ ticks' = Moves(tick, next)
          /\ emitted' = IF next.item # 0
                        THEN [emitted EXCEPT ![next.item] = @ + 1] ELSE emitted
    /\ UNCHANGED << clock, upstreamItems, upstreamCount, triggerState, calm,
                    lifeVars, exVars, callVars >>

\* await this.handler(event) returns; lastSeen[hash] = true and the update
\* of lastSeenData is issued
HandlerReturns ==
  \E tick \in TicksInFlight :
    /\ tick.pc = "handler"
    /\ ticks' = Moves(tick, [tick EXCEPT !.pc = "save",
                              !.lastSeen.hashes =
                                 @ \cup {hashEvent("item.created", tick.item)}])
    /\ UNCHANGED << clock, upstreamItems, upstreamCount, triggerState, emitted, calm,
                    lifeVars, exVars, callVars >>

\* update({ data: { lastSeenData: lastSeen } }) returns; the loop goes on
SeenSaved ==
  \E tick \in TicksInFlight :
    /\ tick.pc = "save"
    /\ triggerState.exists
    /\ triggerState' = [triggerState EXCEPT !.lastSeenData = tick.lastSeen]
    /\ LET next == toNextEvent(tick)
       IN /\ next.item # 0 => emitted[next.item] < MaxEmits
          /\ ticks' = Moves(tick, next)
          /\ emitted' = IF next.item # 0
                        THEN [emitted EXCEPT ![next.item] = @ + 1] ELSE emitted
    /\ UNCHANGED << clock, upstreamItems, upstreamCount, calm, lifeVars, exVars, callVars >>

\* listItems, the handler or the update of lastSeenData throws
ItemPollThrows ==
  \E tick \in TicksInFlight :
    /\ TickTrigger.type = "item.created"
    /\ tick.pc \in {"poll", "handler", "save"}
    /\ ticks' = Moves(tick, itemPollFails(tick))
    /\ UNCHANGED << clock, upstreamItems, upstreamCount, triggerState, emitted, calm,
                    lifeVars, exVars, callVars >>

\* pollOqlMatch: executeOql returns; the event is handed to the handler when
\* the policy says so
OqlQueried ==
  \E tick \in TicksInFlight :
    /\ tick.pc = "poll"
    /\ TickTrigger.type = "oql.match"
    /\ LET fires == shouldTrigger(TickTrigger.triggerOn, upstreamCount,
                                  tick.lastSeen.oqlCount)
       IN /\ fires => tick.emits < MaxEmits
          /\ ticks' = Moves(tick, [tick EXCEPT !.currentCount = upstreamCount,
                                    !.pc = IF fires THEN "oqlHandler" ELSE "oqlSave",
                                    !.emits = IF fires THEN @ + 1 ELSE @])
    /\ UNCHANGED << clock, upstreamItems, upstreamCount, triggerState, emitted, calm,
                    lifeVars, exVars, callVars >>

OqlHandlerReturns ==
  \E tick \in TicksInFlight :
    /\ tick.pc = "oqlHandler"
    /\ ticks' = Moves(tick, [tick EXCEPT !.pc = "oqlSave"])
    /\ UNCHANGED << clock, upstreamItems, upstreamCount, triggerState, emitted, calm,
                    lifeVars, exVars, callVars >>

\* update({ data: { lastSeenData: { ...lastSeen, oqlCount: currentCount } } })
OqlCountSaved ==
  \E tick \in TicksInFlight :
    /\ tick.pc = "oqlSave"
    /\ triggerState.exists
    /\ triggerState' = [triggerState EXCEPT !.lastSeenData =
                          [tick.lastSeen EXCEPT !.oqlCount = tick.currentCount]]
    /\ ticks' = Moves(tick, issueUpdate(tick))
    /\ UNCHANGED << clock, upstreamItems, upstreamCount, emitted, calm, lifeVars, exVars, callVars >>

\* executeOql, the handler or the update of the count throws
OqlPollThrows ==
  \E tick \in TicksInFlight :
    /\ TickTrigger.type = "oql.match"
    /\ tick.pc \in {"poll", "oqlHandler", "oqlSave"}
    /\ ticks' = Moves(tick, oqlPollFails(tick))
    /\ UNCHANGED << clock, upstreamItems, upstreamCount, triggerState, emitted, calm,
                    lifeVars, exVars, callVars >>

\* update({ data: { lastCheckedAt: new Date() } }) returns: the tick is over
CheckedAtUpdated ==
  \E tick \in TicksInFlight :
    /\ tick.pc = "update"
    /\ triggerState.exists
    /\ triggerState' = [triggerState EXCEPT !.lastCheckedAt = tick.now]
    /\ ticks' = Leaves(tick)
    /\ calm' = (tick.clean /\ ~tick.failed /\ Alone(tick))
    /\ UNCHANGED << clock, upstreamItems, upstreamCount, emitted, lifeVars, exVars, callVars >>

ClockTicks ==
  /\ clock < MaxClock
  /\ clock' = clock + 1
  /\ UNCHANGED << upstreamItems, upstreamCount, triggerState, ticks, emitted, calm,
                  lifeVars, exVars, callVars >>

\* an item of the watched catalog is created upstream; the upstream clock may
\* run ahead of ours
ItemCreatedUpstream ==
  \E i \in ItemIds, skew \in {0, 1} :
    /\ TickTrigger.type = "item.created"
    /\ ~upstreamItems[i].exists
    /\ \A j \in ItemIds : j < i => upstreamItems[j].exists
    /\ upstreamItems' = [upstreamItems EXCEPT ![i] = [exists |-> TRUE,
                                                      createdAt |-> clock + skew]]
    /\ ticks' = disturbed(ticks)
    /\ calm' = FALSE
    /\ UNCHANGED << clock, upstreamCount, triggerState, emitted, lifeVars, exVars, callVars >>

\* the result of the rule's OQL query changes upstream
OqlCountChanges ==
  \E n \in 0..MaxCount :
    /\ TickTrigger.type = "oql.match"
    /\ n # upstreamCount
    /\ upstreamCount' = n
    /\ ticks' = disturbed(ticks)
    /\ calm' = FALSE
    /\ UNCHANGED << clock, upstreamItems, triggerState, emitted, lifeVars, exVars, callVars >>

\* the process is restarted: the calls in flight are gone, the Store keeps
\* the TriggerState row, start() installs the timer again
ProcessRestarts ==
  /\ ticks # EmptyBag
  /\ ticks' = EmptyBag
  /\ UNCHANGED << clock, upstreamItems, upstreamCount, triggerState, emitted, calm,
                  lifeVars, exVars, callVars >>

\* a started engine with one enabled polled rule
PollInit ==
  /\ ExecutorIdle
  /\ PollingIdle
  /\ \E trigger \in PolledTriggers :
       /\ automationRows = [r \in TmRules |->
                              IF r = PolledRule
                              THEN [exists |-> TRUE, enabled |-> TRUE, trigger |-> trigger]
                              ELSE NoRow]
       /\ pollingIntervals = [r \in TmRules |->
                                IF r = PolledRule
                                THEN Watcher(PolledRule, "timer", trigger)
                                ELSE NoWatcher]
  /\ running = TRUE
  /\ cronJobs = [r \in TmRules |-> NoWatcher]
  /\ orphans = EmptyBag
  /\ calls = EmptyBag
  /\ completed = [op |-> "start", rule |-> 0]

PollNext ==
  \/ TickStarts \/ StateFound \/ StateMissing \/ StateCreated \/ StoreCallThrows
  \/ FailureLogged
  \/ ItemsListed \/ HandlerReturns \/ SeenSaved \/ ItemPollThrows
  \/ OqlQueried \/ OqlHandlerReturns \/ OqlCountSaved \/ OqlPollThrows
  \/ CheckedAtUpdated
  \/ ClockTicks \/ ItemCreatedUpstream \/ OqlCountChanges \/ ProcessRestarts

PollSpec == PollInit /\ [][PollNext]_vars

\* a started engine with one enabled item.created rule whose TriggerState row
\* exists; no call of a tick fails, every call of a tick returns in the end
PollFairInit ==
  /\ ExecutorIdle
  /\ clock = 0
  /\ upstreamItems = [i \in ItemIds |-> NoItem]
  /\ upstreamCount = 0
  /\ triggerState = [exists |-> TRUE, lastCheckedAt |-> 0, lastSeenData |-> NoLastSeen]
  /\ ticks = EmptyBag
  /\ emitted = [i \in ItemIds |-> 0]
  /\ calm = FALSE
  /\ automationRows = [r \in TmRules |->
                         IF r = PolledRule
                         THEN [exists |-> TRUE, enabled |-> TRUE,
                               trigger |-> ItemCreatedTrigger]
                         ELSE NoRow]
  /\ pollingIntervals = [r \in TmRules |->
                           IF r = PolledRule
                           THEN Watcher(PolledRule, "timer", ItemCreatedTrigger)
                           ELSE NoWatcher]
  /\ running = TRUE
  /\ cronJobs = [r \in TmRules |-> NoWatcher]
  /\ orphans = EmptyBag
  /\ calls = EmptyBag
  /\ completed = [op |-> "start", rule |-> 0]

PollFairNext ==
  \/ TickStarts \/ StateFound
  \/ ItemsListed \/ HandlerReturns \/ SeenSaved
  \/ CheckedAtUpdated
  \/ ClockTicks \/ ItemCreatedUpstream \/ ProcessRestarts

PollFairSpec ==
  /\ PollFairInit /\ [][PollFairNext]_vars
  /\ WF_vars(TickStarts) /\ SF_vars(StateFound)
  /\ SF_vars(ItemsListed) /\ SF_vars(HandlerReturns) /\ SF_vars(SeenSaved)
  /\ SF_vars(CheckedAtUpdated)

(***************************************************************************)
(* Polling a status.changed rule: pollStatusChanged.  The repository holds *)
(* two copies of the trigger manager; the build carries one of them.       *)
(***************************************************************************)
MaxChanges == 3        \* history entries of the watched item

TriggerManagerCopies == {"part_009", "engine/trigger-manager.ts"}
Statuses == {"Open", "InProgress", "Done"}

\* String.prototype.toLowerCase on the status names in use
toLowerCase(str) ==
  CASE str \in {"Open", "OPEN", "open"} -> "open"
    [] str \in {"InProgress", "inprogress"} -> "inprogress"
    [] str \in {"Done", "DONE", "done"} -> "done"
    [] OTHER -> str

\* a history entry of action UPDATED: the field it changed, from what to what
HistoryEntry(field, from, to, at) == [field |-> field, from |-> from, to |-> to, at |-> at]

NoEvent == [type |-> "none", from |-> "none", to |-> "none"]

\* history.filter((h) => new Date(h.createdAt) > lastChecked && h.action === 'UPDATED')
recentChanges(w) == SelectSeq(w.history, LAMBDA h : h.at > w.lastCheckedAt)

\* the first recent entry that changed a watched field
RECURSIVE statusChange(_)
statusChange(changes) ==
  IF changes = << >> THEN << >>
  ELSE IF Head(changes).field = "status" THEN << Head(changes) >>
       ELSE statusChange(Tail(changes))

\* if (trigger.from && statusFrom?.toLowerCase() !== trigger.from.toLowerCase()) continue;
\* if (trigger.to && statusTo?.toLowerCase() !== trigger.to.toLowerCase()) continue;
filtersPass(w, change) ==
  /\ w.from # "" => toLowerCase(change.from) = toLowerCase(w.from)
  /\ w.to # "" => toLowerCase(change.to) = toLowerCase(w.to)

\* pollStatusChanged of part_009, for the one item of the catalog: the event
\* it hands to the handler, or NoEvent
pollStatusChanged(w) ==
  LET found == statusChange(recentChanges(w))
  IN IF w.updatedAt <= w.lastCheckedAt THEN NoEvent
     ELSE IF found = << >> THEN NoEvent
     ELSE IF ~filtersPass(w, found[1]) THEN NoEvent
     ELSE IF w.updatedAt \in w.lastSeen THEN NoEvent
     ELSE [type |-> "item.updated", from |-> found[1].from, to |-> found[1].to]

\* pollItemUpdated with attributes: [attributeName], as pollAttributeChanged
\* calls it; from and to are not part of the trigger it is given
pollItemUpdated(w) ==
  LET found == statusChange(recentChanges(w))
  IN IF w.updatedAt <= w.lastCheckedAt THEN NoEvent
     ELSE IF found = << >> THEN NoEvent
     ELSE IF w.updatedAt \in w.lastSeen THEN NoEvent
     ELSE [type |-> "item.updated", from |-> found[1].from, to |-> found[1].to]

\* pollStatusChanged of engine/trigger-manager.ts: it forwards to
\* pollAttributeChanged, which forwards to pollItemUpdated
pollAttributeChanged(w) == pollItemUpdated(w)

statusPoll(w) ==
  IF w.copy = "part_009" THEN pollStatusChanged(w) ELSE pollAttributeChanged(w)

\* the newest entry is first, as getHistory returns it
recorded(w, field, from, to) ==
  [w EXCEPT !.now = @ + 1, !.updatedAt = w.now + 1,
            !.history = << HistoryEntry(field, from, to, w.now + 1) >> \o @,
            !.separate = @ /\ recentChanges(w) = << >>]

\* the status of the watched item changes upstream
StatusChanges ==
  \E to \in Statuses :
    /\ statusWatch.copy \in TriggerManagerCopies
    /\ Len(statusWatch.history) < MaxChanges
    /\ to # statusWatch.status
    /\ statusWatch' = [recorded(statusWatch, "status", statusWatch.status, to)
                         EXCEPT !.status = to]
    /\ UNCHANGED << probe, tmVars, exVars >>

\* another attribute of the watched item changes upstream
AttributeChanges ==
  /\ statusWatch.copy \in TriggerManagerCopies
  /\ Len(statusWatch.history) < MaxChanges
  /\ statusWatch' = recorded(statusWatch, "other", "x", "y")
  /\ UNCHANGED << probe, tmVars, exVars >>

\* one poll tick of the rule, running alone and without a failed call: the
\* event goes to the handler, its fingerprint to lastSeenData, and
\* lastCheckedAt advances
StatusTick ==
  /\ statusWatch.copy \in TriggerManagerCopies
  /\ LET event == statusPoll(statusWatch)
     IN statusWatch' =
          [statusWatch EXCEPT
             !.events = IF event = NoEvent THEN @ ELSE Append(@, event),
             !.lastSeen = IF event = NoEvent THEN @ ELSE @ \cup {statusWatch.updatedAt},
             !.lastCheckedAt = statusWatch.now]
  /\ statusWatch' # statusWatch
  /\ UNCHANGED << probe, tmVars, exVars >>

\* an enabled status.changed rule with from and to filters, watching an item
\* whose status is Open
StatusInit ==
  /\ ExecutorAtRest
  /\ TmConstructed
  /\ probe = NoProbe
  /\ \E copy \in TriggerManagerCopies, from \in {"Open", "open"}, to \in {"Done", "DONE"} :
       statusWatch = [copy |-> copy, from |-> from, to |-> to,
                      status |-> "Open", updatedAt |-> 0, history |-> << >>, now |-> 0,
                      lastCheckedAt |-> 0, lastSeen |-> {}, events |-> << >>,
                      separate |-> TRUE]

StatusNext == StatusChanges \/ AttributeChanges \/ StatusTick

StatusSpec == StatusInit /\ [][StatusNext]_vars

(***************************************************************************)
(* Smart values: tokenizer and parser (smart-values/expression-parser.ts)  *)
(*                                                                         *)
(* The text of an expression is a sequence of lexemes, the maximal runs    *)
(* the tokenizer reads in one step: W(s) is a run written s, Q(chars) a    *)
(* quoted string with the given characters, Sp a run of whitespace.        *)
(* A string value is the sequence of its characters.                       *)
(***************************************************************************)
W(s) == [q |-> FALSE, s |-> << s >>]

\* what a run is written as
run(lex) == lex.s[1]
Q(chars) == [q |-> TRUE, s |-> chars]
Sp == W(" ")

Numerals == {"0", "1"}
parseFloat(s) == IF s = "0" THEN 0 ELSE 1

OPERATOR_CHARS == {"+", "-", "*", "/", "==", "!=", ">", "<", ">=", "<="}

Token(type, value) == [type |-> type, value |-> value]
EOF == Token("EOF", "")

\* Tokenizer.tokenize, one lexeme at a time
tokenOf(lex) ==
  IF lex.q THEN Token("STRING", lex.s)
  ELSE IF run(lex) \in Numerals THEN Token("NUMBER", run(lex))
  ELSE IF run(lex) = "." THEN Token("DOT", run(lex))
  ELSE IF run(lex) = "(" THEN Token("LPAREN", run(lex))
  ELSE IF run(lex) = ")" THEN Token("RPAREN", run(lex))
  ELSE IF run(lex) = "[" THEN Token("LBRACKET", run(lex))
  ELSE IF run(lex) = "]" THEN Token("RBRACKET", run(lex))
  ELSE IF run(lex) = "," THEN Token("COMMA", run(lex))
  ELSE IF run(lex) = "|" THEN Token("PIPE", run(lex))
  ELSE IF run(lex) = ":" THEN Token("COLON", run(lex))
  ELSE IF run(lex) \in OPERATOR_CHARS THEN Token("OPERATOR", run(lex))
  ELSE IF run(lex) \in {"true", "false"} THEN Token("BOOLEAN", run(lex))
  ELSE IF run(lex) = "null" THEN Token("NULL", run(lex))
  ELSE Token("IDENTIFIER", run(lex))

\* the lexeme is the run written s
isRun(lex, s) == ~lex.q /\ run(lex) = s

\* the text starts with the prefix oql:
startsWithOql(text) == Len(text) > 1 /\ isRun(text[1], "oql") /\ isRun(text[2], ":")

RECURSIVE tokenize(_)
tokenize(text) ==
  IF text = << >> THEN << EOF >>
  ELSE IF isRun(Head(text), " ") THEN tokenize(Tail(text))
  ELSE IF startsWithOql(text)
    THEN << Token("IDENTIFIER", "oql"), Token("COLON", ":"),
            Token("STRING", Tail(Tail(text))), EOF >>
  ELSE << tokenOf(Head(text)) >> \o tokenize(Tail(text))

\* ExpressionParser.current / peek
peek(tokens, pos, offset) ==
  IF pos + offset \in DOMAIN tokens THEN tokens[pos + offset] ELSE EOF
current(tokens, pos) == peek(tokens, pos, 0)

\* the outcome of a parsing step: a node and the next position, or a throw
Parsed(node, pos) == [ok |-> TRUE, node |-> node, pos |-> pos]
ParseError(message) == [ok |-> FALSE, message |-> message]

\* ExpressionParser.expect
expect(tokens, p, type) ==
  IF ~p.ok THEN p
  ELSE IF current(tokens, p.pos).type # type THEN ParseError("Expected token")
  ELSE Parsed(p.node, p.pos + 1)

RECURSIVE parsePipe(_, _), parseAdditive(_, _), additiveLoop(_, _)
RECURSIVE parseComparison(_, _), parseUnary(_, _), unaryLoop(_, _, _)
RECURSIVE parsePrimary(_, _), parseArgs(_, _), argsLoop(_, _, _)

parseExpression(tokens, pos) == parsePipe(tokens, pos)

pipeAfterRight(l, r) ==
  IF ~r.ok THEN r
  ELSE Parsed([type |-> "pipe", left |-> l.node, right |-> r.node], r.pos)

pipeAfterLeft(tokens, l) ==
  IF ~l.ok THEN l
  ELSE IF current(tokens, l.pos).type = "PIPE"
    THEN pipeAfterRight(l, parseAdditive(tokens, l.pos + 1))
  ELSE l

\* pipe_expr = additive ( '|' additive )?
parsePipe(tokens, pos) == pipeAfterLeft(tokens, parseAdditive(tokens, pos))

additiveRight(tokens, l, op, r) ==
  IF ~r.ok THEN r
  ELSE additiveLoop(tokens, Parsed([type |-> "binary", operator |-> op,
                                    left |-> l.node, right |-> r.node], r.pos))

additiveLoop(tokens, l) ==
  IF ~l.ok THEN l
  ELSE IF /\ current(tokens, l.pos).type = "OPERATOR"
          /\ current(tokens, l.pos).value \in {"+", "-", "*", "/"}
    THEN additiveRight(tokens, l, current(tokens, l.pos).value,
                       parseComparison(tokens, l.pos + 1))
  ELSE l

\* additive = comparison ( ('+' | '-' | '*' | '/') comparison )*
parseAdditive(tokens, pos) == additiveLoop(tokens, parseComparison(tokens, pos))

comparisonRight(l, op, r) ==
  IF ~r.ok THEN r
  ELSE Parsed([type |-> "binary", operator |-> op,
               left |-> l.node, right |-> r.node], r.pos)

comparisonAfterLeft(tokens, l) ==
  IF ~l.ok THEN l
  ELSE IF /\ current(tokens, l.pos).type = "OPERATOR"
          /\ current(tokens, l.pos).value \in {"==", "!=", ">", "<", ">=", "<="}
    THEN comparisonRight(l, current(tokens, l.pos).value,
                         parseUnary(tokens, l.pos + 1))
  ELSE l

\* comparison = unary ( ('==' | '!=' | '>' | '<' | '>=' | '<=') unary )?
parseComparison(tokens, pos) == comparisonAfterLeft(tokens, parseUnary(tokens, pos))

unaryEnd(base, operations, pos) ==
  IF operations # << >>
    THEN Parsed([type |-> "chain", base |-> base, operations |-> operations], pos)
  ELSE Parsed(base, pos)

unaryAfterArgs(tokens, base, operations, name, a) ==
  IF ~a.ok THEN a
  ELSE unaryLoop(tokens, base,
                 Parsed(Append(operations, [type |-> "functionCall", name |-> name,
                                            args |-> a.node]), a.pos))

unaryAfterIndex(tokens, base, operations, i) ==
  IF ~i.ok THEN i
  ELSE unaryLoop(tokens, base,
                 Parsed(Append(operations, [type |-> "indexAccess", index |-> i.node]),
                        i.pos))

\* the loop of parseUnary; ops.node holds the operations read so far
unaryLoop(tokens, base, ops) ==
  IF /\ current(tokens, ops.pos).type = "DOT"
     /\ peek(tokens, ops.pos, 1).type = "IDENTIFIER"
    THEN IF peek(tokens, ops.pos, 2).type = "LPAREN"
           THEN unaryAfterArgs(tokens, base, ops.node, peek(tokens, ops.pos, 1).value,
                               expect(tokens, parseArgs(tokens, ops.pos + 3), "RPAREN"))
         ELSE unaryLoop(tokens, base,
                        Parsed(Append(ops.node, [type |-> "propertyAccess",
                                                 name |-> peek(tokens, ops.pos, 1).value]),
                               ops.pos + 2))
  ELSE IF current(tokens, ops.pos).type = "LBRACKET"
    THEN unaryAfterIndex(tokens, base, ops.node,
                         expect(tokens, parseExpression(tokens, ops.pos + 1), "RBRACKET"))
  ELSE unaryEnd(base, ops.node, ops.pos)

unaryAfterBase(tokens, b) ==
  IF ~b.ok THEN b ELSE unaryLoop(tokens, b.node, Parsed(<< >>, b.pos))

\* unary = primary ( chain_op )*
parseUnary(tokens, pos) == unaryAfterBase(tokens, parsePrimary(tokens, pos))

\* path = IDENTIFIER ( '.' IDENTIFIER )*, stopping before a function call
RECURSIVE parsePath(_, _, _)
parsePath(tokens, pos, segments) ==
  IF /\ current(tokens, pos).type = "DOT"
     /\ peek(tokens, pos, 1).type = "IDENTIFIER"
     /\ peek(tokens, pos, 2).type # "LPAREN"
    THEN parsePath(tokens, pos + 2, Append(segments, peek(tokens, pos, 1).value))
  ELSE Parsed([type |-> "path", segments |-> segments], pos)

oqlAfterQuery(tokens, q) ==
  IF ~q.ok THEN q
  ELSE Parsed([type |-> "oql", query |-> tokens[q.pos - 1].value], q.pos)

callAfterArgs(name, a) ==
  IF ~a.ok THEN a
  ELSE Parsed([type |-> "functionCall", name |-> name, args |-> a.node], a.pos)

\* primary = STRING | NUMBER | BOOLEAN | NULL | '(' expr ')' | oql | call | path
parsePrimary(tokens, pos) ==
  LET tok == current(tokens, pos) IN
  IF tok.type = "STRING"
    THEN Parsed([type |-> "literal", kind |-> "string", value |-> tok.value], pos + 1)
  ELSE IF tok.type = "NUMBER"
    THEN Parsed([type |-> "literal", kind |-> "number",
                 value |-> parseFloat(tok.value)], pos + 1)
  ELSE IF tok.type = "BOOLEAN"
    THEN Parsed([type |-> "literal", kind |-> "boolean",
                 value |-> (tok.value = "true")], pos + 1)
  ELSE IF tok.type = "NULL"
    THEN Parsed([type |-> "literal", kind |-> "null", value |-> "null"], pos + 1)
  ELSE IF tok.type = "LPAREN"
    THEN expect(tokens, parseExpression(tokens, pos + 1), "RPAREN")
  ELSE IF tok.type = "IDENTIFIER"
    THEN IF tok.value = "oql" /\ peek(tokens, pos, 1).type = "COLON"
           THEN oqlAfterQuery(tokens, expect(tokens, Parsed(<< >>, pos + 2), "STRING"))
         ELSE IF peek(tokens, pos, 1).type = "LPAREN"
           THEN callAfterArgs(tok.value,
                              expect(tokens, parseArgs(tokens, pos + 2), "RPAREN"))
         ELSE parsePath(tokens, pos + 1, << tok.value >>)
  ELSE ParseError("Unexpected token")

argsAfterNext(tokens, args, a) ==
  IF ~a.ok THEN a ELSE argsLoop(tokens, Append(args, a.node), a.pos)

argsLoop(tokens, args, pos) ==
  IF current(tokens, pos).type = "COMMA"
    THEN argsAfterNext(tokens, args, parseExpression(tokens, pos + 1))
  ELSE Parsed(args, pos)

argsAfterFirst(tokens, a) ==
  IF ~a.ok THEN a ELSE argsLoop(tokens, << a.node >>, a.pos)

\* args = expression ( ',' expression )*
parseArgs(tokens, pos) ==
  IF current(tokens, pos).type = "RPAREN" THEN Parsed(<< >>, pos)
  ELSE argsAfterFirst(tokens, parseExpression(tokens, pos))

parseEnd(tokens, result) ==
  IF ~result.ok THEN result
  ELSE IF current(tokens, result.pos).type # "EOF" THEN ParseError("Unexpected token")
  ELSE result

\* ExpressionParser.parse
parse(input) == parseEnd(tokenize(input), parseExpression(tokenize(input), 1))

(***************************************************************************)
(* Smart values: values, function registry and evaluator                   *)
(* (smart-values/smart-value-types.ts, smart-values/functions,             *)
(* template-resolver.ts)                                                   *)
(***************************************************************************)
Str(chars) == [t |-> "string", v |-> chars]
Num(n) == [t |-> "number", v |-> n]
Bool(b) == [t |-> "boolean", v |-> b]
Arr(elems) == [t |-> "array", v |-> elems]
Obj(fields) == [t |-> "object", v |-> fields]
Null == [t |-> "null", v |-> << >>]
Undefined == [t |-> "undefined", v |-> << >>]
NaN == [t |-> "NaN", v |-> << >>]

isNullish(value) == value.t \in {"null", "undefined"}

\* the truthiness of JavaScript
truthy(value) ==
  CASE isNullish(value) \/ value.t = "NaN" -> FALSE
    [] value.t = "boolean" -> value.v
    [] value.t = "number" -> value.v # 0
    [] value.t = "string" -> value.v # << >>
    [] OTHER -> TRUE

\* the outcome of an evaluation: a value, or a throw with its message
Value(v) == [ok |-> TRUE, value |-> v]
Raised(message) == [ok |-> FALSE, message |-> message]

DivisionByZero == "Division by zero"
UnknownFunction == "Unknown function"
OqlTemplateError == "OQL template error"

RECURSIVE joinChars(_, _)
joinChars(strings, delimiter) ==
  IF strings = << >> THEN << >>
  ELSE IF Len(strings) = 1 THEN strings[1]
  ELSE strings[1] \o delimiter \o joinChars(Tail(strings), delimiter)

DigitChars == << "0", "1", "2", "3", "4", "5", "6", "7", "8", "9" >>

RECURSIVE digits(_)
digits(n) ==
  IF n < 0 THEN << "-" >> \o digits(-n)
  ELSE IF n < 10 THEN << DigitChars[n + 1] >>
  ELSE digits(n \div 10) \o << DigitChars[(n % 10) + 1] >>

\* String(value)
RECURSIVE String(_)
String(value) ==
  CASE value.t = "string" -> value.v
    [] value.t = "number" -> digits(value.v)
    [] value.t = "boolean" ->
         IF value.v THEN << "t", "r", "u", "e" >> ELSE << "f", "a", "l", "s", "e" >>
    [] value.t = "null" -> << "n", "u", "l", "l" >>
    [] value.t = "undefined" -> << "u", "n", "d", "e", "f", "i", "n", "e", "d" >>
    [] value.t = "NaN" -> << "N", "a", "N" >>
    [] value.t = "array" ->
         joinChars([i \in DOMAIN value.v |->
                      IF isNullish(value.v[i]) THEN << >> ELSE String(value.v[i])],
                   << "," >>)
    [] OTHER -> << "[object Object]" >>

\* Number(value)
Number(value) ==
  CASE value.t = "number" -> value
    [] value.t = "null" -> Num(0)
    [] value.t = "boolean" -> Num(IF value.v THEN 1 ELSE 0)
    [] value.t = "string" /\ value.v = << >> -> Num(0)
    [] value.t = "string" /\ Len(value.v) = 1 /\ value.v[1] \in Numerals ->
         Num(parseFloat(value.v[1]))
    [] OTHER -> NaN

upperChar(c) ==
  CASE c = "a" -> "A" [] c = "b" -> "B" [] c = "c" -> "C" [] c = "d" -> "D"
    [] c = "e" -> "E" [] c = "f" -> "F" [] c = "l" -> "L" [] c = "n" -> "N"
    [] c = "r" -> "R" [] c = "s" -> "S" [] c = "t" -> "T" [] c = "u" -> "U"
    [] c = "i" -> "I" [] OTHER -> c

\* String.prototype.toUpperCase
toUpperCase(chars) == [i \in DOMAIN chars |-> upperChar(chars[i])]

\* the functions of the registry drawn by the expressions of this model
Registry == {"toUpperCase", "join", "size"}
minArgs(name) == 0
maxArgs(name) == IF name = "join" THEN 1 ELSE 0

\* SmartValueFunction.execute
execute(name, value, args) ==
  CASE name = "toUpperCase" -> Str(toUpperCase(String(value)))
    [] name = "join" ->
         IF value.t # "array" THEN Str(String(value))
         ELSE Str(joinChars([i \in DOMAIN value.v |-> String(value.v[i])],
                            IF args # << >> /\ ~isNullish(args[1])
                              THEN String(args[1]) ELSE << ",", " " >>))
    [] name = "size" ->
         IF value.t \in {"array", "string"} THEN Num(Len(value.v)) ELSE Num(0)

\* the named property of an object, undefined when it has none
property(value, name) ==
  IF value.t = "object" /\ name \in DOMAIN value.v THEN value.v[name] ELSE Undefined

\* String.prototype.split('.') on the text of an expression
RECURSIVE split(_, _)
split(text, segment) ==
  IF text = << >> THEN << segment >>
  ELSE IF isRun(Head(text), ".") THEN << segment >> \o split(Tail(text), << >>)
  ELSE split(Tail(text), Append(segment, Head(text)))

\* Array.prototype.join('.') on the segments of a path
RECURSIVE joinDots(_)
joinDots(segments) ==
  IF segments = << >> THEN << >>
  ELSE IF Len(segments) = 1 THEN << W(segments[1]) >>
  ELSE << W(segments[1]), W(".") >> \o joinDots(Tail(segments))

\* the segment is the one name
isName(segment, name) == Len(segment) = 1 /\ isRun(segment[1], name)

\* value[segment]
member(value, segment) ==
  IF Len(segment) = 1 /\ ~segment[1].q THEN property(value, run(segment[1]))
  ELSE Undefined

\* TemplateResolver.navigatePath
RECURSIVE navigateLoop(_, _)
navigateLoop(value, path) ==
  IF path = << >> THEN value
  ELSE IF isNullish(value) THEN Undefined
  ELSE IF isName(Head(path), "attributes") /\ truthy(property(value, "attributeValues"))
    THEN navigateLoop(property(value, "attributeValues"), Tail(path))
  ELSE navigateLoop(member(value, Head(path)), Tail(path))

navigatePath(obj, path) ==
  IF ~truthy(obj) \/ path = << >> THEN obj ELSE navigateLoop(obj, path)

\* TemplateResolver.resolveTriggerPath
resolveTriggerPath(path, ctx) ==
  IF path = << >> THEN ctx.trigger
  ELSE IF isName(path[1], "item")
    THEN navigatePath(property(ctx.trigger, "item"), Tail(path))
  ELSE navigatePath(ctx.trigger, path)

\* TemplateResolver.resolveCurrentItemPath
resolveCurrentItemPath(path, ctx) ==
  LET item == IF isNullish(ctx.currentItem) THEN property(ctx.trigger, "item")
              ELSE ctx.currentItem IN
  IF isNullish(item) THEN Undefined
  ELSE IF path = << >> THEN item
  ELSE navigatePath(item, path)

\* the text of an expression as the characters of a string, lexeme by lexeme
RECURSIVE written(_)
written(text) ==
  IF text = << >> THEN << >>
  ELSE (IF Head(text).q THEN << "\"" >> \o Head(text).s \o << "\"" >>
        ELSE Head(text).s) \o written(Tail(text))

\* TemplateResolver.resolveOql: the upstream query of the context answers
\* with a scalar or fails
resolveOql(query, ctx) ==
  IF ctx.upstream = "fails" THEN Raised(OqlTemplateError) ELSE Value(Num(1))

\* TemplateResolver.resolveExpressionLegacy
resolveExpressionLegacy(expression, ctx) ==
  IF startsWithOql(expression)
    THEN resolveOql(Tail(Tail(expression)), ctx)
  ELSE LET path == split(expression, << >>) IN
       IF isName(path[1], "trigger") THEN Value(resolveTriggerPath(Tail(path), ctx))
       ELSE IF isName(path[1], "item") \/ isName(path[1], "currentItem")
         THEN Value(resolveCurrentItemPath(Tail(path), ctx))
       ELSE IF isName(path[1], "variables")
         THEN Value(navigatePath(ctx.variables, Tail(path)))
       ELSE Value(Str(<< "{{" >> \o written(expression) \o << "}}" >>))

RECURSIVE evaluateAst(_, _), evaluateAll(_, _), chainLoop(_, _, _)

\* ExpressionEvaluator.evaluatePath
evaluatePath(node, ctx) == resolveExpressionLegacy(joinDots(node.segments), ctx)

callWith(name, value, args) ==
  IF ~args.ok THEN args
  ELSE IF Len(args.value) < minArgs(name) \/ Len(args.value) > maxArgs(name)
    THEN Raised("Function expects another number of args")
  ELSE Value(execute(name, value, args.value))

indexWith(value, index) ==
  IF ~index.ok THEN index
  ELSE IF value.t = "array"
    THEN Value(IF Number(index.value).t = "number" /\ Number(index.value).v + 1 \in DOMAIN value.v
                 THEN value.v[Number(index.value).v + 1] ELSE Undefined)
  ELSE Value(Undefined)

\* one operation of a chain applied to the value reached so far
chainStep(op, value, ctx) ==
  CASE op.type = "functionCall" ->
         IF op.name \notin Registry THEN Raised(UnknownFunction)
         ELSE callWith(op.name, value, evaluateAll(op.args, ctx))
    [] op.type = "propertyAccess" ->
         IF op.name \in Registry /\ minArgs(op.name) = 0
           THEN Value(execute(op.name, value, << >>))
         ELSE IF value.t = "object"
           THEN IF op.name = "attributes" /\ truthy(property(value, "attributeValues"))
                  THEN Value(property(value, "attributeValues"))
                ELSE Value(property(value, op.name))
         ELSE Value(Undefined)
    [] op.type = "indexAccess" -> indexWith(value, evaluateAst(op.index, ctx))

chainLoop(operations, v, ctx) ==
  IF ~v.ok \/ operations = << >> THEN v
  ELSE chainLoop(Tail(operations), chainStep(Head(operations), v.value, ctx), ctx)

\* ExpressionEvaluator.evaluateChain
evaluateChain(node, ctx) == chainLoop(node.operations, evaluateAst(node.base, ctx), ctx)

\* the arguments of a call, evaluated in order; the first throw wins
argsAfterHead(h, rest) ==
  IF ~h.ok THEN h ELSE IF ~rest.ok THEN rest
  ELSE Value(<< h.value >> \o rest.value)

evaluateAll(args, ctx) ==
  IF args = << >> THEN Value(<< >>)
  ELSE argsAfterHead(evaluateAst(Head(args), ctx), evaluateAll(Tail(args), ctx))

\* TemplateResolver.lookupItem: the found item, null when the lookup fails
lookupWith(key, ctx) ==
  IF ~key.ok THEN key
  ELSE IF ctx.upstream = "fails" THEN Value(Null)
  ELSE Value(property(ctx.trigger, "item"))

\* ExpressionEvaluator.evaluateFunctionCall
evaluateFunctionCall(node, ctx) ==
  IF node.name = "lookup"
    THEN IF node.args = << >> THEN Raised("lookup() requires at least 1 argument")
         ELSE lookupWith(evaluateAst(node.args[1], ctx), ctx)
  ELSE IF node.name \in Registry
    THEN callWith(node.name, Null, evaluateAll(node.args, ctx))
  ELSE Raised(UnknownFunction)

pipeWith(left, node, ctx) ==
  IF ~left.ok THEN left
  ELSE IF isNullish(left.value) \/ (left.value.t = "string" /\ left.value.v = << >>)
    THEN evaluateAst(node.right, ctx)
  ELSE left

\* ExpressionEvaluator.evaluatePipe
evaluatePipe(node, ctx) == pipeWith(evaluateAst(node.left, ctx), node, ctx)

\* arithmetic on two numbers, NaN when either is not one
arith(l, r, f(_, _)) == IF l.t = "number" /\ r.t = "number" THEN Num(f(l.v, r.v)) ELSE NaN
compare(l, r, f(_, _)) == Bool(l.t = "number" /\ r.t = "number" /\ f(l.v, r.v))

plus(a, b) == a + b
minus(a, b) == a - b
times(a, b) == a * b
quotient(a, b) == a \div b
greater(a, b) == a > b
less(a, b) == a < b
atLeast(a, b) == a >= b
atMost(a, b) == a <= b

\* left == right of JavaScript on the values of this model
looseEq(l, r) ==
  IF isNullish(l) \/ isNullish(r) THEN isNullish(l) /\ isNullish(r)
  ELSE IF l.t = r.t THEN l.t # "NaN" /\ l.v = r.v
  ELSE IF l.t \in {"array", "object"} \/ r.t \in {"array", "object"} THEN FALSE
  ELSE Number(l).t = "number" /\ Number(r).t = "number" /\ Number(l).v = Number(r).v

binaryWith(operator, left, right) ==
  IF ~left.ok THEN left ELSE IF ~right.ok THEN right
  ELSE LET l == left.value
           r == right.value IN
  CASE operator = "+" ->
         IF l.t = "string" \/ r.t = "string"
           THEN Value(Str((IF isNullish(l) THEN << >> ELSE String(l))
                          \o (IF isNullish(r) THEN << >> ELSE String(r))))
         ELSE Value(arith(Number(l), Number(r), plus))
    [] operator = "-" -> Value(arith(Number(l), Number(r), minus))
    [] operator = "*" -> Value(arith(Number(l), Number(r), times))
    [] operator = "/" ->
         IF Number(r).t = "number" /\ Number(r).v = 0 THEN Raised(DivisionByZero)
         ELSE Value(arith(Number(l), Number(r), quotient))
    [] operator = "==" -> Value(Bool(looseEq(l, r)))
    [] operator = "!=" -> Value(Bool(~looseEq(l, r)))
    [] operator = ">" -> Value(compare(Number(l), Number(r), greater))
    [] operator = "<" -> Value(compare(Number(l), Number(r), less))
    [] operator = ">=" -> Value(compare(Number(l), Number(r), atLeast))
    [] operator = "<=" -> Value(compare(Number(l), Number(r), atMost))
    [] OTHER -> Raised("Unknown operator")

\* ExpressionEvaluator.evaluateBinary
evaluateBinary(node, ctx) ==
  binaryWith(node.operator, evaluateAst(node.left, ctx), evaluateAst(node.right, ctx))

literalValue(node) ==
  CASE node.kind = "string" -> Str(node.value)
    [] node.kind = "number" -> Num(node.value)
    [] node.kind = "boolean" -> Bool(node.value)
    [] node.kind = "null" -> Null

\* ExpressionEvaluator.evaluate
evaluateAst(node, ctx) ==
  CASE node.type = "path" -> evaluatePath(node, ctx)
    [] node.type = "chain" -> evaluateChain(node, ctx)
    [] node.type = "functionCall" -> evaluateFunctionCall(node, ctx)
    [] node.type = "literal" -> Value(literalValue(node))
    [] node.type = "pipe" -> evaluatePipe(node, ctx)
    [] node.type = "binary" -> evaluateBinary(node, ctx)
    [] node.type = "oql" -> resolveOql(node.query, ctx)
    [] OTHER -> Value(Undefined)

(***************************************************************************)
(* Template resolver (template-resolver.ts)                                *)
(*                                                                         *)
(* A template is the sequence of its parts: Lit(chars) is text outside     *)
(* braces, Expr(text) one {{expression}} token with the text between the   *)
(* braces.                                                                 *)
(***************************************************************************)
Lit(chars) == [expr |-> FALSE, text |-> chars]
Expr(text) == [expr |-> TRUE, text |-> text]

\* JSON.stringify
RECURSIVE json(_)
json(value) ==
  CASE value.t = "string" -> << "\"" >> \o value.v \o << "\"" >>
    [] value.t \in {"number", "boolean"} -> String(value)
    [] value.t = "array" ->
         << "[" >> \o joinChars([i \in DOMAIN value.v |-> json(value.v[i])], << "," >>)
                   \o << "]" >>
    [] value.t = "object" -> << "{", "}" >>
    [] OTHER -> << "n", "u", "l", "l" >>

\* TemplateResolver.stringify
stringify(value) ==
  CASE isNullish(value) -> << >>
    [] value.t = "string" -> value.v
    [] value.t \in {"number", "boolean", "NaN"} -> String(value)
    [] OTHER -> json(value)

\* the catch of resolveExpressionSmart: a throw of the parser or of the
\* evaluator falls back to the legacy resolver
smartFallback(expression, ctx, result) ==
  IF result.ok THEN result ELSE resolveExpressionLegacy(expression, ctx)

evaluateParsed(expression, ctx, ast) ==
  IF ~ast.ok THEN resolveExpressionLegacy(expression, ctx)
  ELSE smartFallback(expression, ctx, evaluateAst(ast.node, ctx))

\* TemplateResolver.resolveExpressionSmart
resolveExpressionSmart(expression, ctx) ==
  evaluateParsed(expression, ctx, parse(expression))

\* an expression the loop of resolveString passes over: a block tag or else
isBlockTag(expression) ==
  \/ expression # << >> /\ ~Head(expression).q /\ run(Head(expression)) \in {"#", "/"}
  \/ isName(expression, "else")

RECURSIVE resolveParts(_, _, _)
partResolved(parts, ctx, result, resolved) ==
  IF ~resolved.ok THEN resolved
  ELSE resolveParts(Tail(parts), ctx, result \o stringify(resolved.value))

resolveParts(parts, ctx, result) ==
  IF parts = << >> THEN Value(result)
  ELSE IF ~Head(parts).expr THEN resolveParts(Tail(parts), ctx, result \o Head(parts).text)
  ELSE IF isBlockTag(Head(parts).text)
    THEN resolveParts(Tail(parts), ctx,
                      result \o << "{{" >> \o written(Head(parts).text) \o << "}}" >>)
  ELSE partResolved(parts, ctx, result, resolveExpressionSmart(Head(parts).text, ctx))

\* TemplateResolver.resolveString; the outcome holds the characters
resolveString(template, ctx) == resolveParts(template, ctx, << >>)

\* the evaluation of the parsed expression, when the text parses
evaluationOf(expression, ctx) ==
  IF parse(expression).ok THEN evaluateAst(parse(expression).node, ctx)
  ELSE Value(Undefined)

\* the expressions of the body whose evaluation raises the given error
RaisedIn(body, ctx, errors) ==
  {i \in DOMAIN body :
     /\ body[i].expr
     /\ ~evaluationOf(body[i].text, ctx).ok
     /\ evaluationOf(body[i].text, ctx).message \in errors}

(***************************************************************************)
(* Resolving one template against a trigger item with a Tags attribute     *)
(***************************************************************************)
MaxTags == 3
MaxStages == 2

TagChars == {"a", "b", "c"}
TagLists == UNION {[1..n -> TagChars] : n \in 0..MaxTags}
Separator == << " ", "/", " " >>

\* the context of a run triggered on an item whose attribute Tags holds the
\* given strings
TagsCtx(tags, upstream) ==
  [trigger |-> Obj([type |-> Str(<< "manual" >>),
                    item |-> Obj([id |-> Num(1),
                                  attributeValues |->
                                    Obj([Tags |-> Arr([i \in DOMAIN tags |-> Str(<< tags[i] >>)])])])]),
   currentItem |-> Undefined,
   variables |-> Obj(<< >>),
   upstream |-> upstream]

TagsPath == << W("trigger"), W("."), W("item"), W("."), W("attributes"), W("."), W("Tags") >>

\* the call of a function as it is written after a pipe or after a dot
CallTexts ==
  { << W("join"), W("("), Q(Separator), W(")") >>,
    << W("join"), W("("), W(")") >>,
    << W("toUpperCase") >>,
    << W("size") >> }
PipeStage(call) == << Sp, W("|"), Sp >> \o call
DotStage(call) == << W(".") >> \o call
Stages == {PipeStage(call) : call \in CallTexts} \cup {DotStage(call) : call \in CallTexts}

RECURSIVE concat(_)
concat(texts) == IF texts = << >> THEN << >> ELSE Head(texts) \o concat(Tail(texts))

TagsExpressions ==
  {TagsPath \o concat(stages) : stages \in UNION {[1..n -> Stages] : n \in 0..MaxStages}}

\* the outcome of a call that has not returned
Pending == [ok |-> FALSE, message |-> "pending"]

TemplateInit ==
  /\ ExecutorAtRest
  /\ TmConstructed
  /\ statusWatch = NoStatusWatch
  /\ \E tags \in TagLists, expression \in TagsExpressions :
       probe = [op |-> "resolveString", template |-> << Expr(expression) >>,
                ctx |-> TagsCtx(tags, "answers"), tags |-> tags,
                done |-> FALSE, out |-> Pending]

\* resolveString is applied to the template
TemplateResolved ==
  /\ probe.op = "resolveString"
  /\ ~probe.done
  /\ probe' = [probe EXCEPT !.done = TRUE,
                            !.out = resolveString(probe.template, probe.ctx)]
  /\ UNCHANGED << statusWatch, tmVars, exVars >>

TemplateNext == TemplateResolved

TemplateSpec == TemplateInit /\ [][TemplateNext]_vars

(***************************************************************************)
(* One action whose parameter is a template (action-runner.ts): comment.add *)
(* resolves its body and posts it on the triggered item.                   *)
(***************************************************************************)
NoComment == [posted |-> FALSE, body |-> << >>]

\* ActionRunner.executeCommentAdd: what it returns or throws, and the comment
\* the upstream holds afterwards
commentWith(resolvedBody) ==
  IF ~resolvedBody.ok THEN [out |-> resolvedBody, comment |-> NoComment]
  ELSE [out |-> Value(Str(<< "commentId" >>)),
        comment |-> [posted |-> TRUE, body |-> resolvedBody.value]]

executeCommentAdd(action, ctx) == commentWith(resolveString(action.body, ctx))

\* ActionRunner.executeOne around it: the ActionResult
actionResultOf(done) ==
  [status |-> IF done.out.ok THEN "success" ELSE "failed",
   error |-> IF done.out.ok THEN NoError ELSE done.out.message,
   comment |-> done.comment]

executeOneComment(action, ctx) == actionResultOf(executeCommentAdd(action, ctx))

Operators == {"+", "-", "*", "/"}
Arithmetic ==
  {<< W(l), Sp, W(op), Sp, W(r) >> : l \in Numerals, op \in Operators, r \in Numerals}

\* calls of a function the registry does not hold, at the top and in a chain
UnknownCalls ==
  { << W("bogus"), W("("), W("1"), W(")") >>,
    TagsPath \o DotStage(<< W("bogus"), W("("), W(")") >>) }

InlineQuery == << W("oql"), W(":"), Sp, W("SELECT"), Sp, W("COUNT") >>

BodyExpressions ==
  Arithmetic \cup UnknownCalls \cup {InlineQuery}
    \cup {TagsPath \o DotStage(call) : call \in CallTexts}

\* bodies: the expression alone, or after some text
Bodies ==
  {<< Expr(e) >> : e \in BodyExpressions}
    \cup {<< Lit(<< "n", "=" >>), Expr(e) >> : e \in BodyExpressions}

NoActionResult == [status |-> "none", error |-> NoError, comment |-> NoComment]

ActionInit ==
  /\ ExecutorAtRest
  /\ TmConstructed
  /\ statusWatch = NoStatusWatch
  /\ \E tags \in TagLists, body \in Bodies, upstream \in {"answers", "fails"} :
       probe = [op |-> "executeOne", action |-> [type |-> "comment.add", body |-> body],
                ctx |-> TagsCtx(tags, upstream), done |-> FALSE,
                result |-> NoActionResult]

\* executeOne is applied to the action
ActionExecuted ==
  /\ probe.op = "executeOne"
  /\ ~probe.done
  /\ probe' = [probe EXCEPT !.done = TRUE,
                            !.result = executeOneComment(probe.action, probe.ctx)]
  /\ UNCHANGED << statusWatch, tmVars, exVars >>

ActionNext == ActionExecuted

ActionSpec == ActionInit /\ [][ActionNext]_vars

(***************************************************************************)
(* Condition evaluator (condition-evaluator.ts)                            *)
(*                                                                         *)
(* The outcome of a node is whether it passed, or a throw; `raised` is a   *)
(* ghost that records that an error was raised while the node was          *)
(* evaluated, whether it was thrown on or caught on the way.               *)
(***************************************************************************)
MaxChildren == 2

Passed(b, raised) == [ok |-> TRUE, passed |-> b, raised |-> raised, message |-> NoError]
Threw(message) == [ok |-> FALSE, passed |-> FALSE, raised |-> TRUE, message |-> message]

\* ConditionEvaluator.isConditionGroup
isConditionGroup(node) == "operator" \in DOMAIN node /\ "conditions" \in DOMAIN node

\* ConditionEvaluator.looseEquals on two strings
looseEquals(a, b) == a = b \/ toLowerCase(a) = toLowerCase(b)

\* ConditionEvaluator.evaluateAttribute / compareValue
evaluateAttribute(condition, ctx) ==
  IF ~ctx.hasItem THEN Passed(FALSE, FALSE)
  ELSE CASE condition.operator = "equals" ->
              Passed(looseEquals(ctx.status, condition.value), FALSE)
         [] condition.operator = "not_equals" ->
              Passed(~looseEquals(ctx.status, condition.value), FALSE)
         [] OTHER -> Passed(FALSE, FALSE)

\* OnstaqClient.executeOql: the totalCount of the query, or a failure
Queries == {"SELECT_SOME", "SELECT_NONE", "SELECT_BROKEN"}
totalCount(query) == IF query = "SELECT_SOME" THEN 1 ELSE 0

\* ConditionEvaluator.evaluateOql: a failed query is caught and is "false"
evaluateOql(condition, ctx) ==
  IF condition.query = "SELECT_BROKEN" THEN Passed(FALSE, TRUE)
  ELSE IF condition.hasExpectCount
    THEN Passed(totalCount(condition.query) = condition.expectCount, FALSE)
  ELSE Passed(totalCount(condition.query) > 0, FALSE)

\* ConditionEvaluator.evaluateReference: a failed fetch is caught and is "false"
evaluateReference(condition, ctx) ==
  IF ~ctx.hasItem THEN Passed(FALSE, FALSE)
  ELSE IF ctx.references = "fails" THEN Passed(FALSE, TRUE)
  ELSE Passed(condition.exists <=> (ctx.references = "some"), FALSE)

Falsy == { << >>, << "f", "a", "l", "s", "e" >>, << "0" >>, << "n", "u", "l", "l" >>,
           << "u", "n", "d", "e", "f", "i", "n", "e", "d" >> }

templateWith(condition, ctx, resolved) ==
  IF ~resolved.ok THEN Threw(resolved.message)
  ELSE Passed(resolved.value \notin Falsy,
              RaisedIn(condition.expression, ctx.smart,
                       {DivisionByZero, UnknownFunction, OqlTemplateError}) # {})

\* ConditionEvaluator.evaluateTemplate
evaluateTemplate(condition, ctx) ==
  templateWith(condition, ctx, resolveString(condition.expression, ctx.smart))

\* ConditionEvaluator.evaluateSingle
evaluateSingle(condition, ctx) ==
  CASE condition.type = "attribute" -> evaluateAttribute(condition, ctx)
    [] condition.type = "oql" -> evaluateOql(condition, ctx)
    [] condition.type = "reference" -> evaluateReference(condition, ctx)
    [] condition.type = "template" -> evaluateTemplate(condition, ctx)
    [] OTHER -> Threw("Unknown condition type")

RECURSIVE evaluateNode(_, _), andLoop(_, _, _), orLoop(_, _, _)

andStep(conditions, ctx, raised, r) ==
  IF ~r.ok THEN r
  ELSE IF ~r.passed THEN Passed(FALSE, raised \/ r.raised)
  ELSE andLoop(Tail(conditions), ctx, raised \/ r.raised)

andLoop(conditions, ctx, raised) ==
  IF conditions = << >> THEN Passed(TRUE, raised)
  ELSE andStep(conditions, ctx, raised, evaluateNode(Head(conditions), ctx))

orStep(conditions, ctx, raised, r) ==
  IF ~r.ok THEN r
  ELSE IF r.passed THEN Passed(TRUE, raised \/ r.raised)
  ELSE orLoop(Tail(conditions), ctx, raised \/ r.raised)

orLoop(conditions, ctx, raised) ==
  IF conditions = << >> THEN Passed(FALSE, raised)
  ELSE orStep(conditions, ctx, raised, evaluateNode(Head(conditions), ctx))

notOf(r) == IF ~r.ok THEN r ELSE Passed(~r.passed, r.raised)

\* ConditionEvaluator.evaluateGroup
evaluateGroup(group, ctx) ==
  CASE group.operator = "AND" -> andLoop(group.conditions, ctx, FALSE)
    [] group.operator = "OR" -> orLoop(group.conditions, ctx, FALSE)
    [] group.operator = "NOT" ->
         IF Len(group.conditions) # 1
           THEN Threw("NOT operator requires exactly one condition")
         ELSE notOf(evaluateNode(group.conditions[1], ctx))
    [] OTHER -> Threw("Unknown condition group operator")

\* ConditionEvaluator.evaluateNode
evaluateNode(node, ctx) ==
  IF isConditionGroup(node) THEN evaluateGroup(node, ctx) ELSE evaluateSingle(node, ctx)

\* the try/catch of evaluate: a throw is "not passed" with the error recorded
caught(r) ==
  IF r.ok THEN [passed |-> r.passed, error |-> NoError, raised |-> r.raised]
  ELSE [passed |-> FALSE, error |-> r.message, raised |-> TRUE]

\* ConditionEvaluator.evaluate on a condition that is not null
evaluateCondition(condition, ctx) == caught(evaluateNode(condition, ctx))

\* the leaves drawn by the model
AttributeLeaves ==
  {[type |-> "attribute", field |-> "Status", operator |-> op, value |-> v] :
     op \in {"equals", "not_equals"}, v \in {"open", "Done"}}
OqlLeaves ==
  {[type |-> "oql", query |-> q, hasExpectCount |-> FALSE, expectCount |-> 0] : q \in Queries}
ReferenceLeaves ==
  {[type |-> "reference", direction |-> "outbound", exists |-> e] : e \in BOOLEAN}
TemplateLeaves ==
  {[type |-> "template", expression |-> << Expr(e) >>] :
     e \in { << W("1"), Sp, W("/"), Sp, W("0") >>,
             << W("1"), Sp, W("-"), Sp, W("1") >>,
             InlineQuery }}
UnknownLeaves == {[type |-> "script"]}

ConditionLeaves ==
  AttributeLeaves \cup OqlLeaves \cup ReferenceLeaves \cup TemplateLeaves \cup UnknownLeaves

\* the leaves of the inner groups
InnerLeaves ==
  { [type |-> "attribute", field |-> "Status", operator |-> "equals", value |-> "open"],
    [type |-> "oql", query |-> "SELECT_BROKEN", hasExpectCount |-> FALSE, expectCount |-> 0],
    [type |-> "template", expression |-> << Expr(<< W("1"), Sp, W("/"), Sp, W("0") >>) >>],
    [type |-> "script"] }

GroupsOver(operators, nodes) ==
  {[operator |-> op, conditions |-> cs] :
     op \in operators, cs \in UNION {[1..n -> nodes] : n \in 0..MaxChildren}}

InnerGroups == GroupsOver({"AND", "OR", "NOT"}, InnerLeaves)
ConditionTrees == GroupsOver({"AND", "OR", "NOT", "XOR"}, ConditionLeaves \cup InnerGroups)

\* the context of a run triggered on an item whose Status is Open
ConditionCtx(references, upstream) ==
  [hasItem |-> TRUE, status |-> "Open", references |-> references,
   smart |-> TagsCtx(<< >>, upstream)]

NoConditionResult == [passed |-> FALSE, error |-> NoError, raised |-> FALSE]

ConditionInit ==
  /\ ExecutorAtRest
  /\ TmConstructed
  /\ statusWatch = NoStatusWatch
  /\ \E condition \in ConditionTrees, references \in {"some", "fails"},
        upstream \in {"answers", "fails"} :
       probe = [op |-> "evaluate", condition |-> condition,
                ctx |-> ConditionCtx(references, upstream), done |-> FALSE,
                result |-> NoConditionResult]

\* evaluate is applied to the condition
ConditionEvaluated ==
  /\ probe.op = "evaluate"
  /\ ~probe.done
  /\ probe' = [probe EXCEPT !.done = TRUE,
                            !.result = evaluateCondition(probe.condition, probe.ctx)]
  /\ UNCHANGED << statusWatch, tmVars, exVars >>

ConditionNext == ConditionEvaluated

ConditionSpec == ConditionInit /\ [][ConditionNext]_vars

(***************************************************************************)
(* Writing a rule and executing the stored row (api/validation,            *)
(* api/routes/automations.ts, mcp/tools.ts, executor.ts)                   *)
(***************************************************************************)
MaxActions == 2

\* singleConditionSchema: the union over the four leaf types
singleConditionSchema(node) ==
  ~isConditionGroup(node) /\ node.type \in {"attribute", "oql", "reference", "template"}

\* conditionGroupSchema: operator in the enum, conditions an array of at
\* least one single condition or group
RECURSIVE conditionGroupSchema(_)
conditionGroupSchema(node) ==
  /\ isConditionGroup(node)
  /\ node.operator \in {"AND", "OR", "NOT"}
  /\ Len(node.conditions) >= 1
  /\ \A i \in DOMAIN node.conditions :
        \/ singleConditionSchema(node.conditions[i])
        \/ conditionGroupSchema(node.conditions[i])

\* conditionSchema: nullable and optional
conditionSchema(body) ==
  body.hasConditions =>
    singleConditionSchema(body.conditions) \/ conditionGroupSchema(body.conditions)

\* the action types of actionSchema the model draws from, and one it lacks
ActionTypeEnum == {"comment.add", "item.update"}
actionSchema(action) == action.type \in ActionTypeEnum

\* createAutomationSchema.safeParse(req.body).success
createAutomationSchema(body) ==
  /\ conditionSchema(body)
  /\ Len(body.actions) >= 1
  /\ \A i \in DOMAIN body.actions : actionSchema(body.actions[i])

NoStoredRow ==
  [exists |-> FALSE, hasConditions |-> FALSE, conditions |-> [type |-> "none"],
   actions |-> << >>, hasComponents |-> FALSE, components |-> << >>]

\* prisma.automation.create of the REST route: conditions and actions are
\* written, components is not
legacyRow(body) ==
  [exists |-> TRUE, hasConditions |-> body.hasConditions, conditions |-> body.conditions,
   actions |-> body.actions, hasComponents |-> FALSE, components |-> << >>]

\* the submitted program as a component chain: the conditions as one
\* condition component, then the actions in order
programOf(body) ==
  (IF body.hasConditions THEN << Condition(1) >> ELSE << >>)
    \o [i \in DOMAIN body.actions |->
          TypedAction(i + 1, body.actions[i].type, body.actions[i].continueOnError)]

\* prisma.automation.create of the MCP tool: components is written
componentsRow(body) ==
  [exists |-> TRUE, hasConditions |-> FALSE, conditions |-> [type |-> "none"],
   actions |-> << >>, hasComponents |-> TRUE, components |-> programOf(body)]

\* POST /api/automations: the response status and the Store afterwards
postAutomation(body, row) ==
  IF ~createAutomationSchema(body) THEN [response |-> 400, row |-> row]
  ELSE [response |-> 201, row |-> legacyRow(body)]

\* what a walk leaves in the Execution: thrown or not, the error, the results
outcomeOf(w) == [threw |-> w.threw, err |-> w.err, results |-> w.results]

RouteCtx == [hasItem |-> TRUE, currentItem |-> 0, path |-> << >>, chained |-> "no"]

\* runExecution on the stored row: toAutomationRule reads record.components
\* and executeComponents iterates it
runStored(row, tape) ==
  IF ~row.hasComponents
    THEN [threw |-> TRUE, err |-> eNotIterable, results |-> << >>]
  ELSE outcomeOf(executeComponents(row.components, RouteCtx, InitialSt(tape)))

StatusLeaf == [type |-> "attribute", field |-> "Status", operator |-> "equals", value |-> "open"]
NotGroups == GroupsOver({"NOT"}, {StatusLeaf, [type |-> "script"]})
RouteConditions ==
  {StatusLeaf} \cup GroupsOver({"AND", "OR", "NOT"}, {StatusLeaf} \cup NotGroups)

RouteActions ==
  {[type |-> t, continueOnError |-> coe] :
     t \in {"comment.add", "item.update", "refetch_data"}, coe \in {"absent", "true"}}

RouteBodies ==
  {[hasConditions |-> FALSE, conditions |-> [type |-> "none"], actions |-> as] :
     as \in UNION {[1..n -> RouteActions] : n \in 0..MaxActions}}
  \cup {[hasConditions |-> TRUE, conditions |-> c, actions |-> << a >>] :
          c \in RouteConditions, a \in RouteActions}

NoOutcome == [threw |-> FALSE, err |-> NoError, results |-> << >>]

\* the Store holds no row, or a row another writer persisted from the body:
\* a deployment of the legacy shape, or the MCP tool
RouteInit ==
  /\ ExecutorAtRest
  /\ TmConstructed
  /\ statusWatch = NoStatusWatch
  /\ \E body \in RouteBodies, shape \in {"none", "legacy", "components"} :
       probe = [op |-> "route", body |-> body, response |-> 0, shape |-> shape,
                row |-> CASE shape = "none" -> NoStoredRow
                          [] shape = "legacy" -> legacyRow(body)
                          [] shape = "components" -> componentsRow(body),
                ran |-> FALSE, tape |-> << >>, run |-> NoOutcome]

\* POST /api/automations with the body
RoutePost ==
  /\ probe.op = "route"
  /\ probe.shape = "none"
  /\ probe.response = 0
  /\ probe' = [probe EXCEPT !.response = postAutomation(probe.body, probe.row).response,
                            !.row = postAutomation(probe.body, probe.row).row]
  /\ UNCHANGED << statusWatch, tmVars, exVars >>

\* the executor runs the stored row, against an upstream that answers as on
\* the tape
RuleExecuted ==
  /\ probe.op = "route"
  /\ probe.row.exists
  /\ ~probe.ran
  /\ \E tape \in [1..(1 + MaxActions) -> {0, 1}] :
       probe' = [probe EXCEPT !.ran = TRUE, !.tape = tape,
                              !.run = runStored(probe.row, tape)]
  /\ UNCHANGED << statusWatch, tmVars, exVars >>

RouteNext == RoutePost \/ RuleExecuted

RouteSpec == RouteInit /\ [][RouteNext]_vars

(***************************************************************************)
(* The related_items branch and the item an action addresses.  Upstream    *)
(* holds the references of the source item and the items that can be       *)
(* fetched; an item is its id.                                             *)
(***************************************************************************)
MaxRefs == 2            \* references upstream returns for the source item

SourceItem == "X"
TargetItems == {"A", "B"}
OtherItem == "T"
AllItems == {SourceItem, OtherItem} \cup TargetItems

ReferenceKinds == {"DEPENDENCY", "LINK"}
NoKind == "none"
NoCatalog == "none"
AbsentItem == "none"

\* the catalog of an item
catalogOf(item) == IF item = "B" THEN "hardware" ELSE "software"

ItemReference(from, to, kind) ==
  [fromItemId |-> from, toItemId |-> to, referenceKind |-> kind]

\* onstaqClient.getItem: rejects for an item that cannot be fetched
getItem(id, fetchable) == [ok |-> id \in fetchable, item |-> id]

\* ctx.currentItem || ctx.trigger.item
sourceItemOf(ctx) == IF ctx.currentItem # AbsentItem THEN ctx.currentItem ELSE ctx.triggerItem

\* refs.inbound or refs.outbound, filtered by branch.referenceKind
filteredRefs(branch, refs) ==
  LET relevantRefs == IF branch.direction = "inbound" THEN refs.inbound ELSE refs.outbound
  IN IF branch.referenceKind # NoKind
     THEN SelectSeq(relevantRefs, LAMBDA r : r.referenceKind = branch.referenceKind)
     ELSE relevantRefs

\* the loop that fetches the full item of each reference: a rejected getItem
\* is logged and the reference passed over, as is an item of another catalog
RECURSIVE fetchTargets(_,_,_,_,_)
fetchTargets(branch, filtered, k, items, fetchable) ==
  IF k > Len(filtered) THEN items
  ELSE LET targetId == IF branch.direction = "inbound" THEN filtered[k].fromItemId
                       ELSE filtered[k].toItemId
           got == getItem(targetId, fetchable)
       IN IF ~got.ok THEN fetchTargets(branch, filtered, k + 1, items, fetchable)
          ELSE IF branch.catalogId # NoCatalog /\ catalogOf(got.item) # branch.catalogId
          THEN fetchTargets(branch, filtered, k + 1, items, fetchable)
          ELSE fetchTargets(branch, filtered, k + 1, Append(items, got.item), fetchable)

\* resolveItemId taking the trigger item whatever the current item is
resolveItemId_triggerItem(config, ctx, fetchable) ==
  IF config.itemId # AbsentItem THEN [ok |-> TRUE, id |-> config.itemId]
  ELSE IF config.itemKey # AbsentItem
  THEN [ok |-> config.itemKey \in fetchable, id |-> config.itemKey]
  ELSE IF config.useTriggeredItem # "false" /\ ctx.triggerItem # AbsentItem
  THEN [ok |-> TRUE, id |-> ctx.triggerItem]
  ELSE [ok |-> FALSE, id |-> AbsentItem]

\* ActionRunner.resolveItemId: the id the action is applied to, or a throw
resolveItemId(config, ctx, fetchable) ==
  IF config.itemId # AbsentItem THEN [ok |-> TRUE, id |-> config.itemId]
  ELSE IF config.itemKey # AbsentItem
  THEN [ok |-> config.itemKey \in fetchable, id |-> config.itemKey]
  ELSE IF config.useTriggeredItem # "false" /\ ctx.currentItem # AbsentItem
  THEN [ok |-> TRUE, id |-> ctx.currentItem]
  ELSE IF config.useTriggeredItem # "false" /\ ctx.triggerItem # AbsentItem
  THEN [ok |-> TRUE, id |-> ctx.triggerItem]
  ELSE [ok |-> FALSE, id |-> AbsentItem]

\* the for-loop over the items: the action of the branch runs in a child
\* context whose currentItem is the item; appliedTo lists the ids the action
\* was applied to, in order
RECURSIVE applyToEach(_,_,_,_,_,_)
applyToEach(config, items, k, appliedTo, ctx, fetchable) ==
  IF k > Len(items) THEN appliedTo
  ELSE LET branchCtx == [ctx EXCEPT !.currentItem = items[k]]
           target == resolveItemId(config, branchCtx, fetchable)
       IN applyToEach(config, items, k + 1,
                      IF target.ok THEN Append(appliedTo, target.id) ELSE appliedTo,
                      ctx, fetchable)

\* the related_items case of executeBranchComponent with one action in the
\* branch: status of the branch result, the items iterated, the ids the
\* action was applied to
executeRelatedItems(branch, config, ctx, upstream) ==
  IF sourceItemOf(ctx) = AbsentItem
  THEN [status |-> "skipped", items |-> <<>>, appliedTo |-> <<>>]
  ELSE IF ~upstream.readable
  THEN [status |-> "failed", items |-> <<>>, appliedTo |-> <<>>]
  ELSE LET items == fetchTargets(branch, filteredRefs(branch, upstream.refs), 1, <<>>,
                                 upstream.fetchable)
       IN [status |-> "success", items |-> items,
           appliedTo |-> applyToEach(config, items, 1, <<>>, ctx, upstream.fetchable)]

(***************************************************************************)
(* The specification of one related_items branch: the references of the    *)
(* source item are distinct (no two with the same target and kind).        *)
(***************************************************************************)
OutboundRefs ==
  {ItemReference(SourceItem, to, kind) : to \in TargetItems, kind \in ReferenceKinds}

RefLists ==
  {refs \in UNION {[1..n -> OutboundRefs] : n \in 0..MaxRefs} :
     \A i, j \in 1..Len(refs) : refs[i] = refs[j] => i = j}

InboundRefs == << ItemReference(OtherItem, SourceItem, "DEPENDENCY") >>

Upstreams ==
  {[readable |-> readable, refs |-> [outbound |-> refs, inbound |-> InboundRefs],
    fetchable |-> fetchable \cup {SourceItem}] :
     readable \in BOOLEAN, refs \in RefLists, fetchable \in SUBSET (TargetItems \cup {OtherItem})}

BranchConfigs ==
  {[direction |-> direction, referenceKind |-> kind, catalogId |-> catalogId] :
     direction \in {"outbound", "inbound"}, kind \in {"DEPENDENCY", NoKind},
     catalogId \in {NoCatalog, "software"}}

DefaultTarget == [itemId |-> AbsentItem, itemKey |-> AbsentItem, useTriggeredItem |-> "absent"]

ActionTargets ==
  {DefaultTarget,
   [itemId |-> OtherItem, itemKey |-> AbsentItem, useTriggeredItem |-> "absent"],
   [itemId |-> AbsentItem, itemKey |-> "B", useTriggeredItem |-> "absent"],
   [itemId |-> AbsentItem, itemKey |-> AbsentItem, useTriggeredItem |-> "false"]}

BranchCtxs ==
  {[currentItem |-> AbsentItem, triggerItem |-> SourceItem],
   [currentItem |-> SourceItem, triggerItem |-> OtherItem],
   [currentItem |-> AbsentItem, triggerItem |-> AbsentItem]}

NoBranchResult == [status |-> "none", items |-> <<>>, appliedTo |-> <<>>]

RelatedInit ==
  /\ ExecutorAtRest
  /\ TmConstructed
  /\ statusWatch = NoStatusWatch
  /\ \E branch \in BranchConfigs, config \in ActionTargets, ctx \in BranchCtxs,
        upstream \in Upstreams :
       probe = [op |-> "executeBranchComponent", branch |-> branch, config |-> config,
                ctx |-> ctx, upstream |-> upstream, done |-> FALSE,
                out |-> NoBranchResult]

\* the branch is executed
RelatedExecuted ==
  /\ probe.op = "executeBranchComponent"
  /\ ~probe.done
  /\ probe' = [probe EXCEPT !.done = TRUE,
                            !.out = executeRelatedItems(probe.branch, probe.config,
                                                        probe.ctx, probe.upstream)]
  /\ UNCHANGED << statusWatch, tmVars, exVars >>

RelatedNext == RelatedExecuted

RelatedSpec == RelatedInit /\ [][RelatedNext]_vars

(***************************************************************************)
(* ctx.variables under a branch.  A context holds a reference to its       *)
(* variables object; the objects live in the heap of the walk.  The child  *)
(* context of an iteration is the spread copy of ctx: its fields are the   *)
(* parent's values, references included.  The trace lists the writes and   *)
(* the reads of variables in the order they happen.                        *)
(***************************************************************************)
MaxIterated == 2        \* items a branch iterates
MaxBody == 2            \* actions in the branch

VariableNames == {"a", "b"}
NotSet == << "undefined", "" >>      \* the value of a variable never written
NotGiven == "none"                  \* a configuration value that is absent
IterableItems == << "A", "B", "C", "D" >>

EmptyObject == [n \in VariableNames |-> NotSet]

\* what upstream returns for the query of an item.lookup or oql.execute
\* action, which names the current item
oqlResultFor(item) == << "rows", item >>

\* the value of a variable.set action: a literal or {{currentItem.id}}
resolveValue(value, ctx) ==
  IF value = "{{currentItem.id}}" THEN << "id", ctx.currentItem >> ELSE << "text", value >>

\* ctx.variables[name] = value
putVariable(name, value, where, ctx, st) ==
  [st EXCEPT !.heap[ctx.variables][name] = value,
             !.trace = Append(@, [kind |-> "write", name |-> name, value |-> value,
                                  where |-> where])]

executeVariableSet(action, where, ctx, st) ==
  putVariable(action.name, resolveValue(action.value, ctx), where, ctx, st)

executeItemLookup(action, where, ctx, st) ==
  putVariable(action.storeResultAs, oqlResultFor(ctx.currentItem), where, ctx, st)

executeOql(action, where, ctx, st) ==
  IF action.storeResultAs # NotGiven
  THEN putVariable(action.storeResultAs, oqlResultFor(ctx.currentItem), where, ctx, st)
  ELSE st

\* a log action whose message is {{variables.<name>}}
executeLog(action, where, ctx, st) ==
  [st EXCEPT !.trace = Append(@, [kind |-> "read", name |-> action.name,
                                  value |-> st.heap[ctx.variables][action.name],
                                  where |-> where])]

executeVariableAction(action, where, ctx, st) ==
  CASE action.type = "variable.set" -> executeVariableSet(action, where, ctx, st)
    [] action.type = "item.lookup" -> executeItemLookup(action, where, ctx, st)
    [] action.type = "oql.execute" -> executeOql(action, where, ctx, st)
    [] OTHER -> executeLog(action, where, ctx, st)

RECURSIVE executeActions(_,_,_,_,_)
executeActions(actions, k, where, ctx, st) ==
  IF k > Len(actions) THEN st
  ELSE executeActions(actions, k + 1, where, ctx,
                      executeVariableAction(actions[k], where, ctx, st))

\* a child context with a variables object of its own, a copy of the parent's
childContext_copiesVariables(ctx, item, st) ==
  LET fresh == Len(st.heap) + 1
  IN [ctx |-> [ctx EXCEPT !.currentItem = item, !.variables = fresh],
      st |-> [st EXCEPT !.heap = Append(@, st.heap[ctx.variables])]]

\* const branchCtx = { ...ctx, currentItem: item, componentResults: [] }
childContext(ctx, item, st) ==
  [ctx |-> [ctx EXCEPT !.currentItem = item], st |-> st]

\* for (const item of items) executeComponents(branch.components, branchCtx)
RECURSIVE iterateBody(_,_,_,_,_)
iterateBody(body, items, k, ctx, st) ==
  IF k > Len(items) THEN st
  ELSE LET child == childContext(ctx, items[k], st)
       IN iterateBody(body, items, k + 1, ctx,
                      executeActions(body, 1, k, child.ctx, child.st))

\* a program made of one branch and of the actions that follow it
executeBranchThenRest(body, items, rest, ctx, st) ==
  executeActions(rest, 1, 0, ctx, iterateBody(body, items, 1, ctx, st))

(***************************************************************************)
(* The specification of the variables of one run.                          *)
(***************************************************************************)
VariableActions ==
  {[type |-> "variable.set", name |-> n, value |-> v, storeResultAs |-> NotGiven] :
     n \in {"a"}, v \in {"{{currentItem.id}}", "done"}}
  \cup {[type |-> "item.lookup", name |-> NotGiven, value |-> NotGiven, storeResultAs |-> "a"]}
  \cup {[type |-> "oql.execute", name |-> NotGiven, value |-> NotGiven, storeResultAs |-> s] :
          s \in {"b", NotGiven}}
  \cup {[type |-> "log", name |-> n, value |-> NotGiven, storeResultAs |-> NotGiven] :
          n \in VariableNames}

Reads ==
  << [type |-> "log", name |-> "a", value |-> NotGiven, storeResultAs |-> NotGiven],
     [type |-> "log", name |-> "b", value |-> NotGiven, storeResultAs |-> NotGiven] >>

BranchBodies == UNION {[1..n -> VariableActions] : n \in 1..MaxBody}

ItemLists == {SubSeq(IterableItems, 1, n) : n \in 0..MaxIterated}

\* const ctx = { ..., variables: {}, createdItems: [], componentResults: [] }
RunCtx == [currentItem |-> "X", variables |-> 1]
RunHeap == [heap |-> << EmptyObject >>, trace |-> <<>>]

VariablesInit ==
  /\ ExecutorAtRest
  /\ TmConstructed
  /\ statusWatch = NoStatusWatch
  /\ \E body \in BranchBodies, items \in ItemLists :
       probe = [op |-> "executeComponents", body |-> body, items |-> items,
                rest |-> Reads, done |-> FALSE, out |-> RunHeap]

\* the program is executed
ProgramExecuted ==
  /\ probe.op = "executeComponents"
  /\ ~probe.done
  /\ probe' = [probe EXCEPT !.done = TRUE,
                            !.out = executeBranchThenRest(probe.body, probe.items,
                                                          probe.rest, RunCtx, RunHeap)]
  /\ UNCHANGED << statusWatch, tmVars, exVars >>

VariablesNext == ProgramExecuted

VariablesSpec == VariablesInit /\ [][VariablesNext]_vars

(***************************************************************************)
(* The gate with chained triggers under a Store that answers every write   *)
(* and rules that stay in place, with the progress the event loop gives    *)
(* every pending continuation of a run and of an automation.trigger call.  *)
(***************************************************************************)
ChainStep == ChainQueued \/ ChainAdmitted \/ ChainReturn

SteadyStep == CreateOk \/ Walk \/ UpdateOk

ChainFairNext ==
  \/ TriggerQueued \/ TriggerAdmitted
  \/ ChainQueued \/ ChainAdmitted \/ ChainReturn
  \/ CreateOk \/ Walk \/ UpdateOk

ChainFairSpec ==
  Init /\ [][ChainFairNext]_vars /\ WF_vars(SteadyStep) /\ WF_vars(ChainStep)

(***************************************************************************)
(* Polling a rule whose trigger is item.deleted or reference.added.  An    *)
(* upstream occurrence (the deletion of item i, or the REFERENCE_ADDED     *)
(* history entry of item i) is kept in upstreamItems with its timestamp.   *)
(***************************************************************************)
ItemDeletedTrigger == Trigger("item.deleted", "none", "none")
ReferenceAddedTrigger == Trigger("reference.added", "none", "none")

OccurrenceTriggers == {ItemDeletedTrigger, ReferenceAddedTrigger}

\* the switch of pollOnce: the poller called for a trigger type, none when
\* the switch has no case for it
pollerOf(type) ==
  CASE type = "item.created" -> "pollItemCreated"
    [] type = "item.updated" -> "pollItemUpdated"
    [] type = "attribute.changed" -> "pollAttributeChanged"
    [] type = "status.changed" -> "pollStatusChanged"
    [] type = "item.linked" -> "pollItemLinked"
    [] type = "item.unlinked" -> "pollItemUnlinked"
    [] type = "item.commented" -> "pollItemCommented"
    [] type = "oql.match" -> "pollOqlMatch"
    [] OTHER -> "none"

\* no case of the switch matches: pollOnce goes on to the update of
\* lastCheckedAt
SwitchFallsThrough ==
  \E tick \in TicksInFlight :
    /\ tick.pc = "poll"
    /\ pollerOf(TickTrigger.type) = "none"
    /\ ticks' = Moves(tick, issueUpdate(tick))
    /\ UNCHANGED << clock, upstreamItems, upstreamCount, triggerState, emitted, calm,
                    lifeVars, exVars, callVars >>

\* an item of the watched catalog is deleted upstream, or a reference is
\* added to it; the upstream clock may run ahead of ours
OccurrenceUpstream ==
  \E i \in ItemIds, skew \in {0, 1} :
    /\ TickTrigger \in OccurrenceTriggers
    /\ ~upstreamItems[i].exists
    /\ \A j \in ItemIds : j < i => upstreamItems[j].exists
    /\ upstreamItems' = [upstreamItems EXCEPT ![i] = [exists |-> TRUE,
                                                      createdAt |-> clock + skew]]
    /\ ticks' = disturbed(ticks)
    /\ calm' = FALSE
    /\ UNCHANGED << clock, upstreamCount, triggerState, emitted, lifeVars, exVars, callVars >>

\* a started engine with one enabled rule triggered by item.deleted or
\* reference.added
OccurrenceInit ==
  /\ ExecutorIdle
  /\ PollingIdle
  /\ \E trigger \in OccurrenceTriggers :
       /\ automationRows = [r \in TmRules |->
                              IF r = PolledRule
                              THEN [exists |-> TRUE, enabled |-> TRUE, trigger |-> trigger]
                              ELSE NoRow]
       /\ pollingIntervals = [r \in TmRules |->
                                IF r = PolledRule
                                THEN Watcher(PolledRule, "timer", trigger)
                                ELSE NoWatcher]
  /\ running = TRUE
  /\ cronJobs = [r \in TmRules |-> NoWatcher]
  /\ orphans = EmptyBag
  /\ calls = EmptyBag
  /\ completed = [op |-> "start", rule |-> 0]

OccurrenceNext ==
  \/ TickStarts \/ StateFound \/ StateMissing \/ StateCreated \/ StoreCallThrows
  \/ FailureLogged
  \/ SwitchFallsThrough
  \/ CheckedAtUpdated
  \/ ClockTicks \/ OccurrenceUpstream \/ ProcessRestarts

OccurrenceSpec == OccurrenceInit /\ [][OccurrenceNext]_vars

(***************************************************************************)
(* handleTriggerEvent.  A watcher hands a TriggerEvent to the handler,     *)
(* which reads the rule from the Store; pending lists the rules of the     *)
(* events whose read has not returned yet.  A rule can be disabled or      *)
(* deleted while the read is under way.                                    *)
(***************************************************************************)
MaxPending == 2         \* events whose read of the rule is under way

WithoutIndex(seq, i) == SubSeq(seq, 1, i - 1) \o SubSeq(seq, i + 1, Len(seq))

\* getAutomationRule: the row of the rule, null when there is none
getAutomationRule(rule) ==
  [exists |-> rule \in automations, enabled |-> rule \notin probe.disabled]

\* the handler going on for every rule that exists, enabled or not
returnsEarly_ignoresEnabled(automation) == ~automation.exists

\* if (!automation || !automation.enabled) return
returnsEarly(automation) == ~automation.exists \/ ~automation.enabled

\* a timer or cron callback calls the handler for its rule
EventDelivered ==
  \E rule \in PlainRules :
    /\ probe.op = "handleTriggerEvent"
    /\ Len(probe.pending) < MaxPending
    /\ probe' = [probe EXCEPT !.pending = Append(@, rule)]
    /\ UNCHANGED << statusWatch, tmVars, exVars >>

\* POST /automations/:id/disable: the row is written with enabled: false
RuleDisabled ==
  \E rule \in automations \ probe.disabled :
    /\ probe.op = "handleTriggerEvent"
    /\ probe' = [probe EXCEPT !.disabled = @ \cup {rule}]
    /\ UNCHANGED << statusWatch, tmVars, exVars >>

\* the read returns no row or a disabled row: the handler returns
EventSkipped ==
  \E i \in 1..Len(probe.pending) :
    /\ returnsEarly(getAutomationRule(probe.pending[i]))
    /\ probe' = [probe EXCEPT !.pending = WithoutIndex(@, i), !.skipped = TRUE]
    /\ UNCHANGED << statusWatch, tmVars, exVars >>

\* the read returns an enabled row and the gate is saturated
EventQueued ==
  \E i \in 1..Len(probe.pending) :
    LET rule == probe.pending[i]
    IN /\ ~returnsEarly(getAutomationRule(rule))
       /\ \E hasItem \in ItemChoices(rule) :
            /\ arrived + 1 + Reserved + (IF ChainTarget(rule) # 0 THEN 1 ELSE 0) <= budget
            /\ enqueue(arrived + 1, rule, hasItem, 0)
       /\ arrived' = arrived + 1
       /\ probe' = [probe EXCEPT !.pending = WithoutIndex(@, i)]
       /\ UNCHANGED << statusWatch, tmVars, maxConcurrentExecutions, executions,
                       automations, budget >>

\* the read returns an enabled row and a slot is free
EventAdmitted ==
  \E i \in 1..Len(probe.pending) :
    LET rule == probe.pending[i]
    IN /\ ~returnsEarly(getAutomationRule(rule))
       /\ \E hasItem \in ItemChoices(rule) :
            /\ arrived + 1 + Reserved + (IF ChainTarget(rule) # 0 THEN 1 ELSE 0) <= budget
            /\ admit(arrived + 1, rule, hasItem, 0)
       /\ arrived' = arrived + 1
       /\ probe' = [probe EXCEPT !.pending = WithoutIndex(@, i)]
       /\ UNCHANGED << statusWatch, tmVars, maxConcurrentExecutions, executions,
                       automations, budget >>

\* the executor as constructed, its rule enabled, no event under way
HandlerInit ==
  /\ TmConstructed
  /\ statusWatch = NoStatusWatch
  /\ probe = [op |-> "handleTriggerEvent", disabled |-> {}, pending |-> <<>>,
              skipped |-> FALSE]
  /\ \E n \in 0..MaxCap : maxConcurrentExecutions = configuredMax(n)
  /\ activeExecutions = 0
  /\ executionQueue = <<>>
  /\ runs = [i \in Ids |-> NoRun]
  /\ executions = [i \in Ids |-> NoExecution]
  /\ automations = PlainRules
  /\ arrived = 0
  /\ budget = MaxPending

HandlerNext ==
  \/ EventDelivered \/ RuleDisabled \/ DeleteAutomation
  \/ EventSkipped \/ EventQueued \/ EventAdmitted
  \/ CreateOk \/ CreateThrows \/ Walk
  \/ UpdateOk \/ UpdateThrows \/ CatchUpdateOk \/ CatchUpdateThrows

HandlerSpec == HandlerInit /\ [][HandlerNext]_vars

(***************************************************************************)
(* Overlapping ticks of pollItemCreated over a catalog of several new      *)
(* items.  Nothing in startPolling keeps the timer from calling pollOnce   *)
(* while an earlier call is under way; each call works on the copy of      *)
(* lastSeenData it read when it started.  row is the TriggerState row.     *)
(***************************************************************************)
MaxOverlap == 2         \* pollOnce calls under way at one time
MaxListed == 2          \* items of the catalog created since the bookmark

OverlapTicks == 1..MaxOverlap

\* listItems({ sortBy: 'createdAt', sortOrder: 'desc' }): the newest first
listedItems == [k \in 1..MaxListed |-> MaxListed + 1 - k]

IdleCall == [pc |-> "idle", lastCheckedAt |-> 0, lastSeen |-> {}, items |-> <<>>, item |-> 0]

\* the for-loop of pollItemCreated up to its next await, over the listing
\* of this specification: every listed item is newer than a bookmark of 0
\* and none is newer than a bookmark of 1
RECURSIVE toNextListed(_)
toNextListed(call) ==
  IF call.items = <<>> THEN [call EXCEPT !.pc = "update", !.item = 0]
  ELSE LET item == Head(call.items)
           rest == [call EXCEPT !.items = Tail(@)]
       IN IF call.lastCheckedAt < 1 /\ ~seenBefore([hashes |-> call.lastSeen],
                                                   hashEvent("item.created", item))
          THEN [rest EXCEPT !.pc = "handler", !.item = item]
          ELSE toNextListed(rest)

\* the timer fires: pollOnce is called
OverlapTickStarts ==
  \E t \in OverlapTicks :
    /\ probe.op = "pollItemCreated"
    /\ probe.calls[t].pc = "idle"
    /\ probe' = [probe EXCEPT !.calls[t].pc = "find"]
    /\ UNCHANGED << statusWatch, tmVars, exVars >>

\* findUnique returns the row
OverlapStateFound ==
  \E t \in OverlapTicks :
    /\ probe.op = "pollItemCreated"
    /\ probe.calls[t].pc = "find"
    /\ probe' = [probe EXCEPT !.calls[t] =
                   [@ EXCEPT !.pc = "poll", !.lastCheckedAt = probe.row.lastCheckedAt,
                             !.lastSeen = probe.row.lastSeenData]]
    /\ UNCHANGED << statusWatch, tmVars, exVars >>

\* listItems returns; the first new, unseen item is handed to the handler
OverlapItemsListed ==
  \E t \in OverlapTicks :
    /\ probe.op = "pollItemCreated"
    /\ probe.calls[t].pc = "poll"
    /\ probe' = [probe EXCEPT !.calls[t] = toNextListed([@ EXCEPT !.items = listedItems])]
    /\ UNCHANGED << statusWatch, tmVars, exVars >>

\* await this.handler(event) returns; lastSeen[hash] = true and the update
\* of lastSeenData is issued
OverlapHandlerReturns ==
  \E t \in OverlapTicks :
    /\ probe.op = "pollItemCreated"
    /\ probe.calls[t].pc = "handler"
    /\ probe' = [probe EXCEPT !.calls[t] =
                   [@ EXCEPT !.pc = "save",
                             !.lastSeen = @ \cup {hashEvent("item.created", probe.calls[t].item)}]]
    /\ UNCHANGED << statusWatch, tmVars, exVars >>

\* update({ data: { lastSeenData: lastSeen } }) returns; the loop goes on
OverlapSeenSaved ==
  \E t \in OverlapTicks :
    /\ probe.op = "pollItemCreated"
    /\ probe.calls[t].pc = "save"
    /\ probe' = [probe EXCEPT !.row.lastSeenData = probe.calls[t].lastSeen,
                              !.calls[t] = toNextListed(@)]
    /\ UNCHANGED << statusWatch, tmVars, exVars >>

\* update({ data: { lastCheckedAt: new Date() } }) returns: the call is over
OverlapCheckedAtUpdated ==
  \E t \in OverlapTicks :
    /\ probe.op = "pollItemCreated"
    /\ probe.calls[t].pc = "update"
    /\ probe' = [probe EXCEPT !.row.lastCheckedAt = 1, !.calls[t] = IdleCall]
    /\ UNCHANGED << statusWatch, tmVars, exVars >>

\* a started engine whose rule has a TriggerState row with the bookmark
\* before the creation of the items
OverlapInit ==
  /\ ExecutorAtRest
  /\ TmConstructed
  /\ statusWatch = NoStatusWatch
  /\ probe = [op |-> "pollItemCreated",
              row |-> [lastCheckedAt |-> 0, lastSeenData |-> {}],
              calls |-> [t \in OverlapTicks |-> IdleCall]]

OverlapNext ==
  \/ OverlapTickStarts \/ OverlapStateFound \/ OverlapItemsListed
  \/ OverlapHandlerReturns \/ OverlapSeenSaved \/ OverlapCheckedAtUpdated

OverlapSpec == OverlapInit /\ [][OverlapNext]_vars

(***************************************************************************)
(* The authentication middleware and the engine share one OnstaqClient     *)
(* (index.ts hands the same object to the executor and to the API          *)
(* server).  client is that object's token field; the executor's start()   *)
(* has logged in, so the field holds the service token.                    *)
(***************************************************************************)
MaxRequests == 2        \* API requests under way at one time
MaxEngineCalls == 2     \* upstream calls of executions and pollers on record

ServiceToken == "service"
CallerTokens == {"alice", "expired"}
NoToken == "null"

ApiRequests == 1..MaxRequests

\* the Authorization headers a caller can send
AuthHeaders ==
  {[scheme |-> "none", value |-> NoToken]} \cup
  {[scheme |-> s, value |-> t] : s \in {"Bearer", "Basic"}, t \in CallerTokens}

IdleRequest == [pc |-> "idle", token |-> NoToken, carried |-> NoToken, status |-> "none"]

\* setToken(token): this.token = token
setToken(client, token) == [client EXCEPT !.token = token]

\* the request interceptor: Authorization = Bearer this.token, if there is one
interceptor(client) == client.token

\* what the upstream answers to getMe with the token it was sent
getMeStatus(carried) == IF carried = "expired" THEN "401" ELSE "200"

\* the middleware up to its await: a header that is no bearer header is
\* answered 401; otherwise the token is set on the client and getMe is sent
AuthRequestArrives ==
  \E r \in ApiRequests, header \in AuthHeaders :
    /\ probe.op = "authMiddleware"
    /\ probe.requests[r].pc = "idle"
    /\ IF header.scheme # "Bearer"
       THEN probe' = [probe EXCEPT !.requests[r] =
                        [IdleRequest EXCEPT !.pc = "answered", !.status = "401"]]
       ELSE LET client == setToken(probe.client, header.value)
            IN probe' = [probe EXCEPT !.client = client,
                                      !.requests[r] =
                                        [IdleRequest EXCEPT !.pc = "getMe",
                                                            !.token = header.value,
                                                            !.carried = interceptor(client)]]
    /\ UNCHANGED << statusWatch, tmVars, exVars >>

\* getMe returns or throws: next() is called, or 401 or 500 is answered
GetMeSettles ==
  \E r \in ApiRequests, reachable \in BOOLEAN :
    /\ probe.op = "authMiddleware"
    /\ probe.requests[r].pc = "getMe"
    /\ probe' = [probe EXCEPT !.requests[r] =
                   [@ EXCEPT !.pc = "answered",
                             !.status = IF reachable THEN getMeStatus(probe.requests[r].carried) ELSE "500"]]
    /\ UNCHANGED << statusWatch, tmVars, exVars >>

\* the response has gone out; the next request can come in
ResponseSent ==
  \E r \in ApiRequests :
    /\ probe.op = "authMiddleware"
    /\ probe.requests[r].pc = "answered"
    /\ probe' = [probe EXCEPT !.requests[r] = IdleRequest]
    /\ UNCHANGED << statusWatch, tmVars, exVars >>

\* a running execution or a poller calls the upstream through the client
EngineCallsUpstream ==
  /\ probe.op = "authMiddleware"
  /\ Len(probe.engineCalls) < MaxEngineCalls
  /\ probe' = [probe EXCEPT !.engineCalls = Append(@, interceptor(probe.client))]
  /\ UNCHANGED << statusWatch, tmVars, exVars >>

AuthInit ==
  /\ ExecutorAtRest
  /\ TmConstructed
  /\ statusWatch = NoStatusWatch
  /\ probe = [op |-> "authMiddleware",
              client |-> [token |-> ServiceToken],
              requests |-> [r \in ApiRequests |-> IdleRequest],
              engineCalls |-> <<>>]

AuthNext ==
  \/ AuthRequestArrives \/ GetMeSettles \/ ResponseSent \/ EngineCallsUpstream

AuthSpec == AuthInit /\ [][AuthNext]_vars

(***************************************************************************)
(* Vocabulary of the properties                                            *)
(***************************************************************************)
RunsInProgress == {id \in Ids : runs[id].pc \in InProgressPcs}

\* the nodes of a ComponentResult tree in pre-order
RECURSIVE Nodes(_)
Nodes(results) ==
  IF results = <<>> THEN <<>>
  ELSE << Head(results) >> \o Nodes(Head(results).children) \o Nodes(Tail(results))

IsLeaf(node) == node.children = <<>>

SomeLeafFailed(results) ==
  \E k \in 1..Len(Nodes(results)) :
     IsLeaf(Nodes(results)[k]) /\ Nodes(results)[k].status = "failed"

SomeNodeFailed(results) ==
  \E k \in 1..Len(Nodes(results)) : Nodes(results)[k].status = "failed"

\* index of the first node of the pre-order that satisfies the test, 0 if none
FirstFailedNode(nodes) ==
  IF \E k \in 1..Len(nodes) : nodes[k].status = "failed"
  THEN CHOOSE k \in 1..Len(nodes) :
         /\ nodes[k].status = "failed"
         /\ \A j \in 1..(k - 1) : nodes[j].status # "failed"
  ELSE 0

FirstFailedNodeWithText(nodes) ==
  IF \E k \in 1..Len(nodes) : nodes[k].status = "failed" /\ nodes[k].error # NoError
  THEN CHOOSE k \in 1..Len(nodes) :
         /\ nodes[k].status = "failed" /\ nodes[k].error # NoError
         /\ \A j \in 1..(k - 1) : ~(nodes[j].status = "failed" /\ nodes[j].error # NoError)
  ELSE 0

\* an Execution row that has been finalized
Finalized(id) == executions[id].exists /\ executions[id].completedAt

\* the sibling lists of a program, at every depth
RECURSIVE SequencesOf(_)
SequencesOf(comps) ==
  {comps} \cup UNION { SequencesOf(comps[i].components) \cup SequencesOf(comps[i].then)
                         \cup SequencesOf(comps[i].else) : i \in 1..Len(comps) }

ProgramSequences(rule) == SequencesOf(Rules[rule].components)

ComponentsOf(rule) ==
  UNION { {seq[i] : i \in 1..Len(seq)} : seq \in ProgramSequences(rule) }

CompOf(rule, cid) == CHOOSE c \in ComponentsOf(rule) : c.id = cid

\* the components after cid in its own sibling list
LaterSiblings(rule, cid) ==
  UNION { {seq[j] : j \in {j \in 1..Len(seq) : \E i \in 1..(j - 1) : seq[i].id = cid}}
          : seq \in ProgramSequences(rule) }

\* the component right after cid in its own sibling list
NextSiblings(rule, cid) ==
  UNION { {seq[j] : j \in {j \in 2..Len(seq) : seq[j - 1].id = cid}}
          : seq \in ProgramSequences(rule) }

\* the branch or if_else whose list contains cid
Enclosing(rule, cid) ==
  {P \in ComponentsOf(rule) :
     \E seq \in {P.components, P.then, P.else} : \E i \in 1..Len(seq) : seq[i].id = cid}

Executed(log, cid, path) ==
  \E k \in 1..Len(log) : log[k].id = cid /\ log[k].path = path

Front(path) == SubSeq(path, 1, Len(path) - 1)

Count(seq, cid, field) ==
  Cardinality({k \in 1..Len(seq) : seq[k][field] = cid})

\* runs whose walk has ended and whose locals (results, log) are still alive
WalkedRuns == {id \in Ids : runs[id].walked /\ runs[id].pc \in {"update", "catch"}}

\* every dispatched component is recorded once in the returned tree, and
\* nothing else is
RecordedAsExecuted(id) ==
  \A c \in ComponentsOf(runs[id].rule) :
     Count(Nodes(runs[id].results), c.id, "componentId") = Count(runs[id].log, c.id, "id")

(***************************************************************************)
(* C1.  The number of runs that hold a slot never exceeds                  *)
(* maxConcurrentExecutions, whatever the interleaving of external          *)
(* triggers, chained triggers and run completions.                         *)
(***************************************************************************)
C1_ConcurrencyCap ==
  /\ activeExecutions <= maxConcurrentExecutions
  /\ Cardinality(RunsInProgress) <= maxConcurrentExecutions

\* the cap is reached and an arrival had to wait
C1_Witness ==
  /\ activeExecutions = maxConcurrentExecutions
  /\ Cardinality(RunsInProgress) = maxConcurrentExecutions
  /\ Len(executionQueue) > 0

(***************************************************************************)
(* C2.  Admission is FIFO: the queue holds the waiting work items in       *)
(* arrival order, and every work item that has started arrived before      *)
(* every work item that is still waiting (ids are given in arrival order). *)
(***************************************************************************)
C2_FifoAdmission ==
  /\ \A i, j \in 1..Len(executionQueue) : i < j => executionQueue[i] < executionQueue[j]
  /\ \A i \in 1..Len(executionQueue) : runs[executionQueue[i]].pc = "queued"
  /\ \A w, r \in Ids :
       (runs[w].pc = "queued" /\ runs[r].pc \notin {"idle", "queued"}) => r < w

\* a work item that waited has been dequeued while a later one still waits
C2_Witness ==
  \E r, w \in Ids :
    /\ runs[r].wasQueued /\ runs[r].pc \in InProgressPcs
    /\ runs[w].pc = "queued"

(***************************************************************************)
(* C3.  Every trigger that arrives, queued or not, is eventually run and   *)
(* its call settled, given that every action of the rules terminates (the  *)
(* rules of FairSpec do not chain).                                        *)
(***************************************************************************)
C3_EveryTriggerCompletes ==
  \A id \in Ids :
    (runs[id].pc # "idle") ~> (runs[id].pc \in SettledPcs)

(***************************************************************************)
(* C4.  activeExecutions equals the number of runs in progress: every run  *)
(* that reserved a slot gives it back when it ends, also when it ends by   *)
(* a Store write that throws.                                              *)
(***************************************************************************)
C4_SlotsMatchRuns ==
  activeExecutions = Cardinality(RunsInProgress)

(***************************************************************************)
(* C5.  No Execution row stays RUNNING once its run has ended; a run       *)
(* whose walk threw is finalized FAILED with the exception text, with      *)
(* completedAt and durationMs set, and its call resolves.                  *)
(***************************************************************************)
C5_NeverLeftRunning ==
  \A id \in Ids :
    /\ (runs[id].pc \in SettledPcs /\ executions[id].exists)
         => executions[id].status # "RUNNING"
    /\ (runs[id].pc \in SettledPcs /\ runs[id].walkThrew) => runs[id].pc = "resolved"

\* C5 as amended: a row stays RUNNING after its run only when the Store
\* update of the catch block threw (the call is then rejected); a run whose
\* walk threw and whose catch-block update succeeded is finalized FAILED with
\* the exception text, completedAt and durationMs, and its call resolves.
C5_FinalizedUnlessStoreThrows ==
  \A id \in Ids :
    /\ (runs[id].pc \in SettledPcs /\ executions[id].exists
          /\ executions[id].status = "RUNNING")
         => (runs[id].pc = "rejected" /\ runs[id].storeThrew)
    /\ (runs[id].pc \in SettledPcs /\ runs[id].walkThrew /\ executions[id].exists
          /\ executions[id].status # "RUNNING")
         => /\ runs[id].pc = "resolved"
            /\ executions[id].status = "FAILED"
            /\ executions[id].error = runs[id].err
            /\ executions[id].error \in {eTypeError, eNotIterable}
            /\ executions[id].completedAt /\ executions[id].durationMs
    /\ (runs[id].pc \in SettledPcs /\ runs[id].walkThrew /\ ~runs[id].storeThrew)
         => runs[id].pc = "resolved"

C5_Witness ==
  \E id \in Ids :
    /\ runs[id].pc = "resolved" /\ runs[id].walkThrew
    /\ executions[id].exists /\ executions[id].status = "FAILED"
    /\ executions[id].error = eTypeError

(***************************************************************************)
(* C6.  A finalized Execution is FAILED if and only if at least one leaf   *)
(* of its persisted ComponentResult tree is failed; otherwise SUCCESS.     *)
(***************************************************************************)
C6_FailedIffLeafFailed ==
  \A id \in Ids :
    Finalized(id) =>
      /\ executions[id].status \in {"SUCCESS", "FAILED"}
      /\ executions[id].status = "FAILED" <=> SomeLeafFailed(executions[id].componentResults)

\* C6 as amended: a finalized Execution is SUCCESS or FAILED; a failed leaf
\* in the persisted tree implies FAILED; FAILED implies a failed leaf unless
\* the row was finalized by the catch block of runExecution (the walk or the
\* first update threw), which writes FAILED whatever the tree.
C6_FailedIffLeafFailedOrCaught ==
  \A id \in Ids :
    Finalized(id) =>
      /\ executions[id].status \in {"SUCCESS", "FAILED"}
      /\ SomeLeafFailed(executions[id].componentResults) => executions[id].status = "FAILED"
      /\ executions[id].status = "FAILED"
           => (SomeLeafFailed(executions[id].componentResults) \/ runs[id].caught)
      /\ runs[id].caught => executions[id].status = "FAILED"

\* a FAILED row whose only failed leaf lies inside a branch, written on the
\* normal path
C6_Witness ==
  \E id \in Ids :
    /\ Finalized(id) /\ ~runs[id].caught
    /\ executions[id].status = "FAILED"
    /\ \E k \in 1..Len(executions[id].componentResults) :
         /\ executions[id].componentResults[k].status = "failed"
         /\ SomeLeafFailed(executions[id].componentResults[k].children)

(***************************************************************************)
(* C7.  The only statuses written for an Execution are RUNNING, SUCCESS    *)
(* and FAILED, and a run halted by a condition that was not met, with no   *)
(* failed component before it, is persisted SUCCESS with the condition's   *)
(* ComponentResult skipped.                                                *)
(***************************************************************************)
LastIsSkippedCondition(results) ==
  /\ Len(results) > 0
  /\ results[Len(results)].componentType = "condition"
  /\ results[Len(results)].status = "skipped"

C7_NeverSkippedStatus ==
  \A id \in Ids :
    /\ executions[id].exists => executions[id].status \in {"RUNNING", "SUCCESS", "FAILED"}
    /\ (Finalized(id) /\ runs[id].condHalt /\ ~runs[id].failedBeforeHalt)
         => /\ executions[id].status = "SUCCESS"
            /\ LastIsSkippedCondition(executions[id].componentResults)

\* C7 as amended: the statuses written are RUNNING, SUCCESS and FAILED; a
\* run halted by a condition that was not met, with no failed component
\* before it, is persisted SUCCESS with the condition's result skipped when
\* the update that stores its results succeeds; when that update throws, the
\* catch block persists FAILED with the Store's error text.
C7_SuccessUnlessStoreThrows ==
  \A id \in Ids :
    /\ executions[id].exists => executions[id].status \in {"RUNNING", "SUCCESS", "FAILED"}
    /\ (Finalized(id) /\ runs[id].condHalt /\ ~runs[id].failedBeforeHalt)
         => /\ LastIsSkippedCondition(executions[id].componentResults)
            /\ ~runs[id].storeThrew => /\ executions[id].status = "SUCCESS"
                                       /\ executions[id].error = NoError
            /\ runs[id].storeThrew => /\ executions[id].status = "FAILED"
                                      /\ executions[id].error = eStore

C7_Witness ==
  \E id \in Ids :
    /\ Finalized(id) /\ runs[id].condHalt /\ ~runs[id].failedBeforeHalt
    /\ ~runs[id].storeThrew
    /\ executions[id].status = "SUCCESS"
    /\ Len(executions[id].componentResults) > 1

(***************************************************************************)
(* C8.  A FAILED Execution has a non-null error equal to the error string  *)
(* of the first failed node of its ComponentResult tree in pre-order; a    *)
(* SUCCESS Execution has a null error.                                     *)
(***************************************************************************)
C8_ErrorIsFirstFailedNode ==
  \A id \in Ids :
    Finalized(id) =>
      LET nodes == Nodes(executions[id].componentResults)
      IN /\ executions[id].status = "SUCCESS" => executions[id].error = NoError
         /\ executions[id].status = "FAILED"
              => /\ executions[id].error # NoError
                 /\ FirstFailedNode(nodes) # 0
                 /\ executions[id].error = nodes[FirstFailedNode(nodes)].error

\* C8 as amended: a FAILED Execution written on the normal path has a
\* non-null error equal to the error string of the first failed node that
\* carries an error string in pre-order (a branch or if_else that is failed
\* through a descendant carries none and is passed over); a FAILED Execution
\* written by the catch block has the message of the caught exception as
\* error; a SUCCESS Execution has a null error.
C8_ErrorIsFirstFailedText ==
  \A id \in Ids :
    Finalized(id) =>
      LET nodes == Nodes(executions[id].componentResults)
      IN /\ executions[id].status = "SUCCESS" => executions[id].error = NoError
         /\ (executions[id].status = "FAILED" /\ ~runs[id].caught)
              => /\ executions[id].error # NoError
                 /\ FirstFailedNodeWithText(nodes) # 0
                 /\ executions[id].error = nodes[FirstFailedNodeWithText(nodes)].error
         /\ (executions[id].status = "FAILED" /\ runs[id].caught)
              => /\ executions[id].error # NoError
                 /\ executions[id].error = runs[id].err

\* two failed leaves with different texts, the first one inside a branch
C8_Witness ==
  \E id \in Ids :
    /\ Finalized(id) /\ ~runs[id].caught /\ executions[id].status = "FAILED"
    /\ LET nodes == Nodes(executions[id].componentResults)
       IN /\ FirstFailedNode(nodes) # FirstFailedNodeWithText(nodes)
          /\ \E k \in 1..Len(nodes) :
               /\ k > FirstFailedNodeWithText(nodes)
               /\ nodes[k].status = "failed"
               /\ nodes[k].error \notin {NoError, executions[id].error}

(***************************************************************************)
(* C9.  A condition that is not met yields a skipped result and no later   *)
(* component of its sequence is executed or recorded; the halt stays in    *)
(* that sequence: the other iterations of an enclosing branch and the      *)
(* component after the enclosing branch or if_else still execute.          *)
(***************************************************************************)
C9_ConditionHaltsItsSequence ==
  \A id \in WalkedRuns :
    LET log == runs[id].log
        rule == runs[id].rule
    IN /\ RecordedAsExecuted(id)
       /\ \A k \in 1..Len(log) :
            (CompOf(rule, log[k].id).componentType = "condition" /\ log[k].status = "skipped")
            => /\ \A s \in LaterSiblings(rule, log[k].id) : ~Executed(log, s.id, log[k].path)
               /\ \A P \in Enclosing(rule, log[k].id) :
                    LET ppath == IF P.componentType = "branch"
                                 THEN Front(log[k].path) ELSE log[k].path
                    IN /\ \E j \in 1..Len(log) :
                            /\ log[j].id = P.id /\ log[j].path = ppath
                            /\ P.componentType = "branch" =>
                                 \A it \in 1..log[j].itemCount :
                                    Executed(log, P.components[1].id, Append(ppath, it))
                       /\ \A n \in NextSiblings(rule, P.id) :
                            n.componentType # "null" => Executed(log, n.id, ppath)

\* a condition not met in the first of two iterations of a branch: the
\* second iteration and the component after the branch have executed
C9_Witness ==
  \E id \in WalkedRuns :
    LET log == runs[id].log
        rule == runs[id].rule
    IN \E k \in 1..Len(log) :
         /\ CompOf(rule, log[k].id).componentType = "condition"
         /\ log[k].status = "skipped"
         /\ log[k].path = << 1 >>
         /\ LaterSiblings(rule, log[k].id) # {}
         /\ \E P \in Enclosing(rule, log[k].id) :
              /\ P.componentType = "branch"
              /\ Executed(log, log[k].id, << 2 >>)
              /\ \E n \in NextSiblings(rule, P.id) : Executed(log, n.id, << >>)

(***************************************************************************)
(* C10.  A failed action stops its sequence exactly when its               *)
(* continueOnError is false or absent; when it is true the next sibling    *)
(* is executed and the failed result is still recorded.                    *)
(***************************************************************************)
C10_FailedActionStopsUnlessContinue ==
  \A id \in WalkedRuns :
    LET log == runs[id].log
        rule == runs[id].rule
        nodes == Nodes(runs[id].results)
    IN \A k \in 1..Len(log) :
         (CompOf(rule, log[k].id).componentType = "action" /\ log[k].status = "failed")
         => /\ \E n \in 1..Len(nodes) :
                 nodes[n].componentId = log[k].id /\ nodes[n].status = "failed"
            /\ CompOf(rule, log[k].id).continueOnError \in {"false", "absent"}
                 => \A s \in LaterSiblings(rule, log[k].id) :
                       ~Executed(log, s.id, log[k].path)
            /\ CompOf(rule, log[k].id).continueOnError = "true"
                 => \A s \in NextSiblings(rule, log[k].id) :
                       s.componentType # "null" => Executed(log, s.id, log[k].path)

\* one walk in which a failed action with continueOnError let its sibling
\* run and a failed action without it stopped the sequence
C10_Witness ==
  \E id \in WalkedRuns :
    LET log == runs[id].log
        rule == runs[id].rule
    IN /\ \E k \in 1..Len(log) :
            /\ log[k].status = "failed"
            /\ CompOf(rule, log[k].id).continueOnError = "true"
            /\ \E s \in NextSiblings(rule, log[k].id) : Executed(log, s.id, log[k].path)
       /\ \E k \in 1..Len(log) :
            /\ log[k].status = "failed"
            /\ CompOf(rule, log[k].id).componentType = "action"
            /\ CompOf(rule, log[k].id).continueOnError = "absent"
            /\ LaterSiblings(rule, log[k].id) # {}
            /\ \A s \in LaterSiblings(rule, log[k].id) : ~Executed(log, s.id, log[k].path)

(***************************************************************************)
(* Vocabulary of the branch properties                                     *)
(***************************************************************************)
BranchLike(componentType) == componentType \in {"branch", "if_else"}

IsPrefix(p, q) == Len(p) <= Len(q) /\ SubSeq(q, 1, Len(p)) = p

\* the components below P, at every depth
Descendants(P) ==
  UNION { {seq[i] : i \in 1..Len(seq)} :
          seq \in SequencesOf(P.components) \cup SequencesOf(P.then) \cup SequencesOf(P.else) }

\* a log entry of an action that failed and whose continueOnError is not true
FailedActionAt(rule, entry) ==
  /\ CompOf(rule, entry.id).componentType = "action"
  /\ entry.status = "failed"
  /\ CompOf(rule, entry.id).continueOnError # "true"

\* the component after every executed branch or if_else has executed
SiblingsFollowBranches(id) ==
  LET log == runs[id].log
      rule == runs[id].rule
  IN \A k \in 1..Len(log) :
       BranchLike(CompOf(rule, log[k].id).componentType)
       => \A n \in NextSiblings(rule, log[k].id) :
             n.componentType # "null" => Executed(log, n.id, log[k].path)

Occurrences(seq, x) == Cardinality({k \in 1..Len(seq) : seq[k] = x})

(***************************************************************************)
(* C11.  A branch or if_else never stops the siblings after it, and its    *)
(* own status is failed if and only if one of its descendant results is    *)
(* failed.                                                                 *)
(***************************************************************************)
C11_FailedIffDescendantFailed ==
  \A id \in WalkedRuns :
    LET nodes == Nodes(runs[id].results)
    IN /\ SiblingsFollowBranches(id)
       /\ \A k \in 1..Len(nodes) :
            BranchLike(nodes[k].componentType)
            => (nodes[k].status = "failed" <=> SomeNodeFailed(nodes[k].children))

\* C11 as amended: a branch or if_else never stops the siblings after it; a
\* branch or if_else that returned its children is failed if and only if one
\* of its descendant results is failed; a branch result without children is
\* skipped (related_items with no source item) or failed with an error text
\* of its own (lookup_items without oqlQuery, or the exception thrown while
\* it executed, recorded by the catch of executeComponents).
C11_FailedIffDescendantOrOwnError ==
  \A id \in WalkedRuns :
    LET nodes == Nodes(runs[id].results)
    IN /\ SiblingsFollowBranches(id)
       /\ \A k \in 1..Len(nodes) :
            BranchLike(nodes[k].componentType)
            => /\ nodes[k].hasChildren
                    => /\ nodes[k].status \in {"success", "failed"}
                       /\ nodes[k].status = "failed" <=> SomeNodeFailed(nodes[k].children)
                       /\ nodes[k].error = NoError
               /\ ~nodes[k].hasChildren
                    => /\ nodes[k].children = <<>>
                       /\ \/ nodes[k].status = "skipped" /\ nodes[k].error = eNoSource
                          \/ nodes[k].status = "failed" /\ nodes[k].error \in {eNoQuery, eUpstream}

\* a branch failed through a descendant of one of its iterations, followed
\* by its sibling
C11_Witness ==
  /\ \E id \in WalkedRuns :
       \E k \in 1..Len(runs[id].log) :
          /\ CompOf(runs[id].rule, runs[id].log[k].id).componentType = "branch"
          /\ runs[id].log[k].status = "failed"
          /\ runs[id].log[k].itemCount > 0
          /\ \E n \in NextSiblings(runs[id].rule, runs[id].log[k].id) :
                Executed(runs[id].log, n.id, runs[id].log[k].path)

(***************************************************************************)
(* C12.  In a branch over several items, an action that fails without      *)
(* continueOnError in one iteration halts the sequence of that iteration   *)
(* only: the components of the branch are executed for every item, the     *)
(* branch is failed, and the component after the branch executes.          *)
(***************************************************************************)
C12_FailedIterationHaltsItselfOnly ==
  \A id \in WalkedRuns :
    LET log == runs[id].log
        rule == runs[id].rule
    IN \A j \in 1..Len(log) :
         LET P == CompOf(rule, log[j].id)
         IN P.componentType = "branch"
            => \A k \in 1..Len(log) : \A it \in 1..log[j].itemCount :
                 ( /\ FailedActionAt(rule, log[k])
                   /\ CompOf(rule, log[k].id) \in Descendants(P)
                   /\ IsPrefix(Append(log[j].path, it), log[k].path) )
                 => /\ log[j].status = "failed"
                    /\ \A other \in 1..log[j].itemCount :
                         Executed(log, P.components[1].id, Append(log[j].path, other))
                    /\ \A s \in LaterSiblings(rule, log[k].id) :
                         ~Executed(log, s.id, log[k].path)
                    /\ \A n \in NextSiblings(rule, P.id) :
                         n.componentType # "null" => Executed(log, n.id, log[j].path)

\* an action failed in the first of two iterations, succeeded in the second,
\* and the component after the branch has executed
C12_Witness ==
  \E id \in WalkedRuns :
    LET log == runs[id].log
        rule == runs[id].rule
    IN \E j, k, m \in 1..Len(log) :
         /\ CompOf(rule, log[j].id).componentType = "branch"
         /\ log[j].itemCount = 2 /\ log[j].status = "failed"
         /\ FailedActionAt(rule, log[k])
         /\ log[k].path = Append(log[j].path, 1)
         /\ log[m].id = log[k].id /\ log[m].path = Append(log[j].path, 2)
         /\ log[m].status = "success"
         /\ \E n \in NextSiblings(rule, log[j].id) : Executed(log, n.id, log[j].path)

(***************************************************************************)
(* C13.  Every item an item.create or item.clone action created occurs     *)
(* exactly once in the createdItems of the run once the enclosing branches *)
(* have returned, at any nesting depth, and createdItems never loses an    *)
(* element during the walk.                                                *)
(***************************************************************************)
C13_CreatedItemsOnceAndGrowing ==
  \A id \in WalkedRuns :
    LET log == runs[id].log
        final == runs[id].createdItems
    IN /\ Len(final) = runs[id].made
       /\ \A item \in 1..runs[id].made : Occurrences(final, item) = 1
       /\ \A k \in 1..Len(log) :
            log[k].path = << >>
            => \A item \in 1..log[k].made : Occurrences(log[k].createdItems, item) = 1
       /\ \A k \in 1..(Len(log) - 1) : IsPrefix(log[k].createdItems, log[k + 1].createdItems)
       /\ Len(log) > 0 => IsPrefix(log[Len(log)].createdItems, final)

\* items created under an if_else inside a branch and by an action inside a
\* created_items branch, all present once at the end of the walk
C13_Witness ==
  \E id \in WalkedRuns :
    LET log == runs[id].log
        rule == runs[id].rule
    IN /\ runs[id].made >= 3
       /\ Len(runs[id].createdItems) = runs[id].made
       /\ \E k \in 1..Len(log) :
            /\ CompOf(rule, log[k].id).actionType = "item.clone"
            /\ log[k].status = "success" /\ Len(log[k].path) = 1
       /\ \E k \in 1..Len(log) :
            /\ CompOf(rule, log[k].id).actionType = "item.create"
            /\ log[k].status = "success"
            /\ \E P \in Enclosing(rule, log[k].id) : P.btype = "created_items"

(***************************************************************************)
(* Vocabulary of the watcher properties                                    *)
(***************************************************************************)
\* the live watchers of a rule: the registered timer and job, and the orphans
Registered(r) == {w \in {pollingIntervals[r], cronJobs[r]} : w.live}
OrphansOf(r) == {w \in BagToSet(orphans) : w.rule = r}
LiveCount(r) ==
  Cardinality(Registered(r)) + BagCardinality([w \in OrphansOf(r) |-> CopiesIn(w, orphans)])
LiveWatchers(r) == Registered(r) \cup OrphansOf(r)

\* an enabled rule with a polled or scheduled trigger
Watched(row) ==
  row.exists /\ row.enabled /\ row.trigger.type \notin {"manual", "webhook.received"}

KindFor(trigger) == IF trigger.type = "schedule" THEN "cron" ELSE "timer"

(***************************************************************************)
(* C14.  Whatever the interleaving of start, stop and reload calls, every  *)
(* rule has at most one live watcher, and once no call is in flight a rule *)
(* that is disabled or deleted has none.                                   *)
(***************************************************************************)
C14_AtMostOneWatcher ==
  \A r \in TmRules :
    /\ LiveCount(r) <= 1
    /\ (calls = EmptyBag /\ ~(automationRows[r].exists /\ automationRows[r].enabled))
         => LiveWatchers(r) = {}

(***************************************************************************)
(* C15.  After any sequence of stop() and start() that ends with a         *)
(* completed start(), every enabled rule with a polled or scheduled        *)
(* trigger has exactly one live watcher, of the kind of its trigger.       *)
(***************************************************************************)
C15_OneWatcherAfterStart ==
  (completed.op = "start" /\ calls = EmptyBag)
  => \A r \in TmRules :
       Watched(automationRows[r])
       => /\ LiveCount(r) = 1
          /\ \A w \in LiveWatchers(r) : w.kind = KindFor(automationRows[r].trigger)

(***************************************************************************)
(* C16.  When reloadAutomation(rule) completes, a watcher built from the   *)
(* persisted trigger is live if the persisted rule is enabled with a       *)
(* polled or scheduled trigger, and no watcher is live for the rule if it  *)
(* is disabled or deleted, in every engine state reload is called in.      *)
(***************************************************************************)
C16_ReloadInstallsPersisted ==
  completed.op = "reload"
  => LET r == completed.rule
     IN IF Watched(automationRows[r])
        THEN \E w \in LiveWatchers(r) :
               /\ w.trigger = automationRows[r].trigger
               /\ w.kind = KindFor(automationRows[r].trigger)
        ELSE LiveWatchers(r) = {}


(***************************************************************************)
(* Vocabulary of the polling properties                                    *)
(***************************************************************************)
\* the step takes a failed tick out of the position it was in
FailedTickMoves(tick) == tick.failed /\ CopiesIn(tick, ticks') < CopiesIn(tick, ticks)

BookmarkKept == triggerState'.lastCheckedAt = triggerState.lastCheckedAt

\* the tick started after a tick of the rule that ran alone and completed
\* without a failed call, and nothing changed upstream since that tick started
SecondQuietTick(tick) == tick.follows /\ tick.clean

EveryTickFires == TickTrigger.type = "oql.match" /\ TickTrigger.triggerOn = "any_results"

\* C17: the persisted lastCheckedAt of a rule never decreases, whatever the
\* poll ticks (successful, failed, overlapping) and restarts, the clock
\* being non-decreasing.
C17_CheckedAtNeverDecreases ==
  [][(triggerState.exists /\ triggerState'.exists)
       => triggerState'.lastCheckedAt >= triggerState.lastCheckedAt]_vars

CountAbsent(p) == p = -1

\* when an oql.match tick fires, by triggerOn, count c and stored count p
FiresOn(triggerOn, c, p) ==
  \/ triggerOn = "new_results" /\ ~CountAbsent(p) /\ c > p
  \/ triggerOn = "count_change" /\ ~CountAbsent(p) /\ c # p
  \/ triggerOn = "any_results" /\ c > 0

StatusRuleTriggerType == "status.changed"

Matches(w, entry) ==
  /\ entry.field = "status"
  /\ toLowerCase(entry.from) = toLowerCase(w.from)
  /\ toLowerCase(entry.to) = toLowerCase(w.to)

MatchingChanges(w) == SelectSeq(w.history, LAMBDA h : Matches(w, h))

\* every change so far was observed in a poll window of its own
SeparateWindows(w) == w.separate /\ recentChanges(w) = << >>

\* C24: every TriggerEvent handed to the executor for a rule carries the
\* type of that rule's trigger; here the rule is a status.changed rule.
C24_EventTypeIsTriggerType ==
  statusWatch.copy \in TriggerManagerCopies =>
    \A k \in 1..Len(statusWatch.events) :
      statusWatch.events[k].type = StatusRuleTriggerType

\* C25: a status.changed rule with from and to fires only for a transition
\* from `from` to `to` (case-insensitive), and when every change was observed
\* in a poll window of its own, the events (one Execution each) are exactly
\* the matching transitions.
C25_FiresOnMatchingTransitionOnly ==
  statusWatch.copy \in TriggerManagerCopies =>
    /\ \A k \in 1..Len(statusWatch.events) :
         /\ toLowerCase(statusWatch.events[k].from) = toLowerCase(statusWatch.from)
         /\ toLowerCase(statusWatch.events[k].to) = toLowerCase(statusWatch.to)
    /\ SeparateWindows(statusWatch)
         => Len(statusWatch.events) = Len(MatchingChanges(statusWatch))

\* C26: if evaluating any leaf of a condition tree raises an error (failed
\* upstream query or reference fetch, template error, wrong NOT arity,
\* unknown type), the whole condition evaluates to false, wherever the leaf
\* stands in the tree, under a NOT and inside an OR included.
C26_ErrorMakesConditionFalse ==
  (probe.op = "evaluate" /\ probe.done /\ probe.result.raised) => ~probe.result.passed

\* the tree holds a NOT node that has not exactly one child
RECURSIVE hasBadNot(_)
hasBadNot(node) ==
  /\ isConditionGroup(node)
  /\ \/ node.operator = "NOT" /\ Len(node.conditions) # 1
     \/ \E i \in DOMAIN node.conditions : hasBadNot(node.conditions[i])

Posted == probe.op = "route" /\ probe.shape = "none" /\ probe.response # 0

\* C27: writing a rule whose condition tree holds a NOT node with zero
\* children or with two or more children is rejected by validation (HTTP
\* 400) and the rule is not persisted.
C27_BadNotRejected ==
  (Posted /\ probe.body.hasConditions /\ hasBadNot(probe.body.conditions))
    => probe.response = 400 /\ ~probe.row.exists

\* C28: an evaluation error inside a template expression of an action
\* parameter (division by zero, call of an unknown function) makes the action
\* end failed with the error message, and no comment is posted with a
\* substituted value.
C28_EvaluationErrorFailsAction ==
  (probe.op = "executeOne" /\ probe.done)
    => \A i \in RaisedIn(probe.action.body, probe.ctx, {DivisionByZero, UnknownFunction}) :
         /\ probe.result.status = "failed"
         /\ probe.result.error = evaluationOf(probe.action.body[i].text, probe.ctx).message
         /\ ~probe.result.comment.posted

\* the template whose expression pipes Tags into join(" / ") and then into
\* toUpperCase
TwoPipes ==
  << Expr(TagsPath \o PipeStage(<< W("join"), W("("), Q(Separator), W(")") >>)
                   \o PipeStage(<< W("toUpperCase") >>)) >>

\* C29: with Tags = ["a","b","c"] the template
\* {{trigger.item.attributes.Tags | join(" / ") | toUpperCase}} resolves to
\* "A / B / C": each of the two pipe stages is applied to the value of the
\* stage before it, whatever strings Tags holds.
C29_PipesApplyEachStage ==
  (probe.op = "resolveString" /\ probe.done /\ probe.template = TwoPipes)
    => probe.out.ok /\ probe.out.value = (toUpperCase(joinChars([i \in DOMAIN probe.tags |-> << probe.tags[i] >>],
                                               Separator)))

\* the stored row was persisted in the legacy shape, by a legacy deployment
\* or by the REST route
LegacyShaped == probe.row.exists /\ ~probe.row.hasComponents

\* C30: a rule persisted in the legacy shape is accepted at read: executing
\* it behaves like the program of one condition component followed by the
\* actions in order; and a rule written through the REST create endpoint is
\* afterwards executed with the program that was submitted.
C30_LegacyShapeExecutes ==
  (probe.op = "route" /\ probe.ran /\ LegacyShaped)
    => probe.run = outcomeOf(executeComponents(programOf(probe.body), RouteCtx,
                                               InitialSt(probe.tape)))

DispatchesChild(rule, cid) ==
  /\ Len(CompOf(rule, cid).components) > 0
  /\ CompOf(rule, cid).components[1].componentType # "null"

Applications(item) == Occurrences(probe.out.appliedTo, item)

\* the case of the claim: an executed outbound branch with a kind and no
\* catalog filter, from a source item, around an action with the default target
OutboundKindBranch ==
  /\ probe.op = "executeBranchComponent" /\ probe.done
  /\ probe.branch.direction = "outbound"
  /\ probe.branch.referenceKind # NoKind
  /\ probe.branch.catalogId = NoCatalog
  /\ probe.config = DefaultTarget
  /\ sourceItemOf(probe.ctx) = SourceItem

ReferencedWithKind(item) ==
  \E k \in 1..Len(probe.upstream.refs.outbound) :
     /\ probe.upstream.refs.outbound[k].toItemId = item
     /\ probe.upstream.refs.outbound[k].referenceKind = probe.branch.referenceKind

FirstBelow(log, j) ==
  LET under(k) == Len(log[k].path) > Len(log[j].path) /\ IsPrefix(log[j].path, log[k].path)
      first == CHOOSE f \in 1..j :
                 /\ \A k \in f..(j - 1) : under(k)
                 /\ f > 1 => ~under(f - 1)
  IN first

\* ctx.createdItems when the branch logged at j was entered
CreatedAtEntry(log, j) ==
  IF FirstBelow(log, j) = 1 THEN <<>> ELSE log[FirstBelow(log, j) - 1].createdItems

\* the items the iterations of the branch logged at j ran for, in order: the
\* current item of the first component of the branch in each iteration
IteratedItems(rule, log, j) ==
  LET first == CompOf(rule, log[j].id).components[1].id
      at == {k \in FirstBelow(log, j)..(j - 1) :
               log[k].id = first /\ Len(log[k].path) = Len(log[j].path) + 1}
  IN [i \in 1..Cardinality(at) |->
        log[CHOOSE k \in at : Cardinality({m \in at : m <= k}) = i].item]

C33_CreatedItemsSnapshot ==
  \A id \in WalkedRuns :
    LET log == runs[id].log
        rule == runs[id].rule
    IN \A j \in 1..Len(log) :
         (/\ CompOf(rule, log[j].id).componentType = "branch"
          /\ CompOf(rule, log[j].id).btype = "created_items")
         => /\ log[j].itemCount = Len(CreatedAtEntry(log, j))
            /\ IteratedItems(rule, log, j) = CreatedAtEntry(log, j)

\* a created_items branch around an item.create entered with two created
\* items: two iterations, each of which created one more item
C33_Witness ==
  \E id \in WalkedRuns :
    LET log == runs[id].log
        rule == runs[id].rule
    IN \E j \in 1..Len(log) :
         /\ CompOf(rule, log[j].id).componentType = "branch"
         /\ CompOf(rule, log[j].id).btype = "created_items"
         /\ CompOf(rule, log[j].id).components[1].actionType = "item.create"
         /\ Len(CreatedAtEntry(log, j)) = 2
         /\ log[j].itemCount = 2
         /\ Len(log[j].createdItems) = 4

(***************************************************************************)
(* C34.  Branch child contexts share the parent's variables map: a value   *)
(* written by variable.set, item.lookup or oql.execute in one iteration is *)
(* visible to every later iteration of the branch and to the components    *)
(* that follow the branch in the parent sequence.                          *)
(***************************************************************************)
\* the value of the last write of the name before position j of the trace
LastWritten(trace, j, name) ==
  LET writes == {k \in 1..(j - 1) : trace[k].kind = "write" /\ trace[k].name = name}
  IN IF writes = {} THEN NotSet
     ELSE trace[CHOOSE k \in writes : \A m \in writes : m <= k].value

C34_WritesVisibleAcrossIterations ==
  (probe.op = "executeComponents" /\ probe.done)
  => LET trace == probe.out.trace
     IN \A j \in 1..Len(trace) :
          trace[j].kind = "read"
          => trace[j].value = LastWritten(trace, j, trace[j].name)

\* a variable read in the second iteration holds what the first iteration
\* wrote, and read after the branch what the second iteration wrote
C34_Witness ==
  /\ probe.op = "executeComponents" /\ probe.done
  /\ LET trace == probe.out.trace
     IN \E i, j \in 1..Len(trace) :
          /\ trace[i].kind = "read" /\ trace[i].where = 2
          /\ trace[i].value = << "id", "A" >>
          /\ trace[j].kind = "read" /\ trace[j].where = 0
          /\ trace[j].value = << "id", "B" >>

(***************************************************************************)
(* C35.  A run whose program executes an automation.trigger action that    *)
(* targets a rule with a terminating program that does not chain always    *)
(* completes: the child run is admitted and finished, the action returns   *)
(* and the parent run is finalized, for every cap of at least one and      *)
(* whatever other runs are in flight or queued.                            *)
(***************************************************************************)
C35_ChainingRunCompletes ==
  \A id \in Ids :
    (runs[id].pc # "idle" /\ ChainTarget(runs[id].rule) # 0)
      ~> (runs[id].pc \in SettledPcs)

(***************************************************************************)
(* C36.  For a rule whose trigger is item.deleted or reference.added, a    *)
(* poll tick emits a TriggerEvent for each matching upstream occurrence    *)
(* since the bookmark whose fingerprint is unseen: a tick that ran with    *)
(* nothing else happening has, when it goes on to write lastCheckedAt,     *)
(* emitted an event for every such occurrence.                             *)
(***************************************************************************)
C36_EmitsForEachOccurrence ==
  \A tick \in TicksInFlight :
    (TickTrigger \in OccurrenceTriggers /\ tick.pc = "update" /\ tick.clean)
    => \A i \in ItemIds :
         (/\ upstreamItems[i].exists
          /\ upstreamItems[i].createdAt > tick.lastCheckedAt
          /\ ~seenBefore(tick.lastSeen, hashEvent(TickTrigger.type, i)))
         => emitted[i] > 0

(***************************************************************************)
(* C37.  Whenever the executor is idle between two turns of the event      *)
(* loop, a non-empty execution queue implies that activeExecutions equals  *)
(* maxConcurrentExecutions: no work item waits while a slot is free.       *)
(***************************************************************************)
C37_NoWaitingWhileSlotFree ==
  executionQueue # <<>> => activeExecutions = maxConcurrentExecutions

\* a run has ended and handed its slot to the oldest work item while another
\* work item is still waiting
C37_Witness ==
  /\ executionQueue # <<>>
  /\ \E r \in Ids : runs[r].wasQueued /\ runs[r].pc \in InProgressPcs
  /\ \E r \in Ids : runs[r].pc = "resolved"

(***************************************************************************)
(* C38.  A TriggerEvent delivered by a watcher for a rule that is disabled *)
(* or no longer exists when the handler has read the rule creates no       *)
(* Execution record, reserves no slot and enqueues nothing.                *)
(***************************************************************************)
\* the step in which the handler is through with the i-th pending event
Handles(i) ==
  /\ probe.op = "handleTriggerEvent"
  /\ i \in 1..Len(probe.pending)
  /\ probe'.pending = WithoutIndex(probe.pending, i)

DisabledOrGone(rule) == rule \notin automations \/ rule \in probe.disabled

C38_SkippedEventLeavesNoTrace ==
  [][\A i \in 1..MaxPending :
       (Handles(i) /\ DisabledOrGone(probe.pending[i]))
       => /\ executions' = executions
          /\ activeExecutions' = activeExecutions
          /\ executionQueue' = executionQueue
          /\ runs' = runs
          /\ arrived' = arrived]_vars

\* an event of a disabled rule that still exists was handled while a run
\* of another event was in progress
C38_Witness ==
  /\ probe.op = "handleTriggerEvent"
  /\ probe.skipped
  /\ probe.disabled \cap automations # {}
  /\ activeExecutions > 0

(***************************************************************************)
(* C39.  Once a dedup fingerprint has been persisted in the lastSeenData   *)
(* of a rule's TriggerState it stays there: no later write of lastSeenData *)
(* by a poll tick of that rule, overlapping ticks included, removes it.    *)
(***************************************************************************)
C39_FingerprintsStay ==
  [][probe.op = "pollItemCreated"
     => probe.row.lastSeenData \subseteq probe'.row.lastSeenData]_vars

(***************************************************************************)
(* C40.  Validating a caller's bearer token does not change the            *)
(* credentials of the engine: the upstream calls of executions and pollers *)
(* made during and after an authenticated API request carry the service    *)
(* token, as they would have without that request.                         *)
(***************************************************************************)
C40_EngineCallsCarryServiceToken ==
  probe.op = "authMiddleware" =>
    \A k \in 1..Len(probe.engineCalls) : probe.engineCalls[k] = ServiceToken

====
